---- MODULE Spec2Model ----
(***************************************************************************)
(* A model of jampy's take-lifecycle core:                                 *)
(*   - Session, the recording state machine and its event log              *)
(*     (src/jampy/session.py);                                             *)
(*   - parse_session_log / _parse_frame, the splicer's replay of an event  *)
(*     log (src/jampy/processing/splicer.py);                              *)
(*   - splice_takes, which cuts the completed takes out of the raw         *)
(*     recording and numbers their files (splicer.py, src/jampy/utils.py); *)
(*   - Recorder, the streaming writer with its real-time producer, its     *)
(*     drain thread and the thread calling stop()                          *)
(*     (src/jampy/audio/recorder.py);                                      *)
(*   - Mixer, the pre-loaded multi-source playback mixer                   *)
(*     (src/jampy/audio/mixer.py);                                         *)
(*   - AudioEngine, with its stream callback on the real-time thread, its  *)
(*     control operations and the song-end threads it starts               *)
(*     (src/jampy/audio/engine.py).                                        *)
(* Strings that the code formats and parses (the details of an event) are  *)
(* sequences of one-character strings, so that formatting and parsing are  *)
(* modelled by what they do.                                               *)
(***************************************************************************)
EXTENDS Integers, Sequences, FiniteSets, TLC

\* ------------------------------------------------------------------ bounds
\* Longest setlist considered (number of tracks of project.setlist.tracks).
MaxTracks == 2
\* Longest Session event log considered.
MaxLog == 7
\* Longest event log handed to parse_session_log.
MaxEvents == 4
\* Number of blocks the real-time thread pushes into one Recorder.
MaxBlocks == 2
\* Longest block pushed, in frames.
MaxBlockLen == 2
\* Number of Recorder.stop() calls considered.
MaxStops == 2
\* Most sources loaded into a Mixer.
MaxSources == 2
\* Largest cursor position a playing Mixer is read up to.
MaxPosition == 5
\* Most frames asked of the Mixer in one read (the block size of a callback).
MaxRead == 2
\* Most Recorders an AudioEngine makes (start_recording calls).
MaxRecorders == 2
\* Most song-end threads started and not yet run.
MaxThreads == 2

\* Frame offsets passed to the Session operations.
Frames == {0, 400, 1200}

VARIABLES
    \* --- Session (session.py:56-74)
    state,                   \* Session.state
    current_track_index,     \* Session.current_track_index
    events,                  \* Session.events
    recording_frame_start,   \* Session._recording_frame_start
    had_back_to_start,       \* Session._had_back_to_start
    tracks,                  \* project.setlist.tracks, as the sequence of track names
    call,                    \* the Session operation most recently invoked, and the state it was invoked in
    \* --- parse_session_log (splicer.py:39-47)
    log,                     \* data["events"], the log being replayed
    ev_i,                    \* number of events the for loop has consumed
    completed,               \* completed
    current_start_frame,     \* current_start_frame: <<>> for None, <<n>> for the int n
    p_track_index,           \* the local current_track_index
    p_track_name,            \* the local current_track_name
    had_restart,             \* had_restart
    \* --- Recorder (recorder.py:20-29) and the three threads that use it
    r_file,                  \* Recorder._file: "None" or "obj" (a SoundFile)
    f_open,                  \* whether the SoundFile is open
    f_data,                  \* the blocks written to the file, in order
    r_buffer,                \* Recorder._buffer
    r_lock,                  \* holder of Recorder._lock: "free", "rt" or "drain"
    r_thread,                \* Recorder._writer_thread: "None" or "thread"
    r_running,               \* Recorder._running
    frames_written,          \* Recorder.frames_written
    w_pc, w_data,            \* the real-time thread inside write(data)
    d_pc, d_chunk, d_tmp,    \* the drain thread inside _writer_loop
    s_pc, s_chunk, s_tmp,    \* the control thread inside stop()
    pushed,                  \* every block passed to write(), in order
    stops,                   \* number of stop() calls that have returned
    stop_calls,              \* number of stop() calls made
    join_timed_out,          \* whether a join in stop() has timed out
    write_after_close,       \* whether file.write was called on a closed file
    \* --- Mixer (mixer.py:29-33)
    sources,                 \* Mixer.sources
    position,                \* Mixer._position
    playing,                 \* Mixer._playing
    m_out,                   \* the block the most recent read() returned
    m_call,                  \* the Mixer operation most recently invoked
    \* --- AudioEngine (engine.py:32-44), its callback and its threads
    e_stream,                \* AudioEngine._stream: "None", "opened" (not started) or "stream" (started)
    e_running,               \* AudioEngine._running
    recorder,                \* AudioEngine.recorder: <<>> for None, <<i>> for recorders[i]
    recorders,               \* every Recorder made so far: "active" (started: file
                             \* open, drain thread alive) or "stopped" (stop() returned)
    on_song_end,             \* whether AudioEngine._on_song_end is set
    output_channels,         \* AudioEngine.output_channels
    peak_level,              \* AudioEngine._peak_level
    indata,                  \* first channel of the input block of the callback in
                             \* progress (<<>> when there is none)
    outdata,                 \* the output block as the callback in progress left it
    wrote,                   \* the Recorder the callback in progress passed its block to
    cb_pc,                   \* the real-time thread inside _callback
    threads,                 \* song-end threads started and not yet run
    notified,                \* a song-end thread was started and set_playing(True)
                             \* has not been called since
    e_call,                  \* the AudioEngine operation most recently invoked
    \* --- splice_takes (splicer.py:93-144), the project and the directory
    raw_data,                \* raw_data, the raw recording (one sample per frame)
    take_dir,                \* completed_takes_dir: file name -> samples in the file
    preferred_takes,         \* per track of the setlist, the TakeInfo set for the
                             \* instrument: <<>> when none, <<info>> otherwise
    t_pc,                    \* the position of the thread inside splice_takes
    t_i,                     \* number of takes the for loop has consumed
    t_run,                   \* how many times splice_takes has been called
    saved_paths,             \* saved_paths
    written,                 \* the write_flac calls of this run, in order
    written_before,          \* what the previous run wrote, in order
    \* --- the control thread inside Mixer.add_source (mixer.py:35-43)
    a_pc,                    \* its position
    a_args,                  \* name, path and volume of the call in progress
    a_data,                  \* the local data
    \* --- the real-time thread inside Mixer.read (mixer.py:88-113)
    rd_pc,                   \* its position
    rd_frames,               \* the argument frames
    rd_k,                    \* number of sources the for loop has consumed
    rd_output,               \* the local output
    rd_tmp,                  \* the cursor loaded by self._position += frames
    rd_starts,               \* the values of start the loop has sampled from
    \* --- the threads of the SessionScreen inside a song end
    \* (tui/screens/session.py:133-140 and 208-214, session.py:139-144)
    se_pc,                   \* per thread, its position
    se_frame                 \* per thread, the local frame

sessVars == <<state, current_track_index, events, recording_frame_start,
              had_back_to_start, tracks, call>>
spliceVars == <<log, ev_i, completed, current_start_frame, p_track_index,
                p_track_name, had_restart>>
recVars == <<r_file, f_open, f_data, r_buffer, r_lock, r_thread, r_running,
             frames_written, w_pc, w_data, d_pc, d_chunk, d_tmp, s_pc, s_chunk,
             s_tmp, pushed, stops, stop_calls, join_timed_out, write_after_close>>
mixVars == <<sources, position, playing, m_out, m_call>>
engVars == <<e_stream, e_running, recorder, recorders, on_song_end,
             output_channels, peak_level, indata, outdata, wrote, cb_pc,
             threads, notified, e_call>>
audioVars == <<mixVars, engVars>>
takeVars == <<raw_data, take_dir, preferred_takes, t_pc, t_i, t_run,
              saved_paths, written, written_before>>
readVars == <<rd_pc, rd_frames, rd_k, rd_output, rd_tmp, rd_starts>>
raceVars == <<a_pc, a_args, a_data, readVars>>
screenVars == <<se_pc, se_frame>>
restVars == <<takeVars, raceVars, screenVars>>
vars == <<sessVars, spliceVars, recVars, audioVars, restVars>>

\* ----------------------------------------------------------------- strings
\* A string is a sequence of one-character strings.
S_frame == <<"f", "r", "a", "m", "e", "=">>
S_had_restart == <<" ", "h", "a", "d", "_", "r", "e", "s", "t", "a", "r", "t", "=">>
S_instrument == <<"i", "n", "s", "t", "r", "u", "m", "e", "n", "t", "=">>
S_True == <<"T", "r", "u", "e">>
S_False == <<"F", "a", "l", "s", "e">>
DigitChars == <<"0", "1", "2", "3", "4", "5", "6", "7", "8", "9">>

\* str(n) for a natural number n.
RECURSIVE FormatNat(_)
FormatNat(n) ==
    IF n < 10 THEN <<DigitChars[n + 1]>>
    ELSE Append(FormatNat(n \div 10), DigitChars[(n % 10) + 1])

\* str(n) for an int, as an f-string formats it.
FormatInt(n) == IF n < 0 THEN <<"-">> \o FormatNat(-n) ELSE FormatNat(n)

\* str(b) for a bool, as an f-string formats it.
FormatBool(b) == IF b THEN S_True ELSE S_False

IsDigit(c) == \E i \in 1..10 : DigitChars[i] = c
DigitVal(c) == (CHOOSE i \in 1..10 : DigitChars[i] = c) - 1

RECURSIVE ParseNat(_)
ParseNat(s) ==
    IF Len(s) = 1 THEN DigitVal(s[1])
    ELSE 10 * ParseNat(SubSeq(s, 1, Len(s) - 1)) + DigitVal(s[Len(s)])

\* int(s) on a decimal literal with an optional sign.
ParseInt(s) ==
    IF s[1] = "-" THEN 0 - ParseNat(Tail(s)) ELSE ParseNat(s)

\* s.split(sep) for a one-character separator.
RECURSIVE Split(_, _)
Split(s, sep) ==
    IF \A i \in 1..Len(s) : s[i] # sep THEN <<s>>
    ELSE LET k == CHOOSE i \in 1..Len(s) :
                      s[i] = sep /\ \A j \in 1..(i - 1) : s[j] # sep
         IN <<SubSeq(s, 1, k - 1)>> \o Split(SubSeq(s, k + 1, Len(s)), sep)

\* s.strip(), on the blank the formats use.
RECURSIVE Strip(_)
Strip(s) ==
    IF s = <<>> THEN s
    ELSE IF s[1] = " " THEN Strip(Tail(s))
    ELSE IF s[Len(s)] = " " THEN Strip(SubSeq(s, 1, Len(s) - 1))
    ELSE s

\* s.startswith(p)
StartsWith(s, p) == Len(s) >= Len(p) /\ SubSeq(s, 1, Len(p)) = p

\* ----------------------------------------------------------------- Session
None == "None"

\* An optional value that is absent (Python's None where the value, when
\* present, is not a string): <<>>, and <<v>> when it is v.
Nothing == <<>>

\* Names of the tracks a setlist may hold, in setlist order.
NamePool == <<"intro", "verse", "bridge", "coda">>

\* Session.instrument
Instrument == <<"b", "a", "s", "s">>

\* Session.current_track, reduced to the name _log reads from it: track.name
\* when 0 <= index < len(tracks), "" when current_track is None.
current_track_name(idx) ==
    IF 0 <= idx /\ idx < Len(tracks) THEN tracks[idx + 1] ELSE ""

\* Session._log with self.current_track_index = idx: the log with one event
\* appended (the two clock readings of an event are left out).
logged(evs, idx, event_type, details) ==
    Append(evs, [event_type |-> event_type,
                 track_index |-> idx,
                 track_name |-> current_track_name(idx),
                 details |-> details])

\* The details strings the Session formats (the variant of the first writes
\* the tracked start frame in place of the argument).
frame_details_stale(recording_frame) ==
    S_frame \o FormatInt(recording_frame_start)
frame_details(recording_frame) == S_frame \o FormatInt(recording_frame)
song_end_details(recording_frame, flag) ==
    S_frame \o FormatInt(recording_frame) \o <<",">> \o S_had_restart
        \o FormatBool(flag)

\* Left out of the Session: _session_start and session_dir (the clock and the
\* directory start() makes), and the on_state_change callback _set_state
\* calls after the assignment, which reads the new state and writes no
\* Session field.

\* The guards of the transitions (the early returns).
start_guard_dropped == TRUE
start_guard == state = "IDLE"
start_recording_guard_lax == state \in {"WAITING", "BETWEEN_TRACKS"}
start_recording_guard == state = "WAITING"
back_to_start_guard == state = "PLAYING"
song_end_guard_dropped == TRUE
song_end_guard == state = "PLAYING"
next_track_guard_dropped == TRUE
next_track_guard == state = "BETWEEN_TRACKS"

\* The value start_recording stores in _had_back_to_start.
start_recording_flag_kept == had_back_to_start
start_recording_flag == FALSE

\* The value start_recording stores in _recording_frame_start.
start_recording_frame_start_kept(recording_frame) == recording_frame_start
start_recording_frame_start(recording_frame) == recording_frame

\* Whether next_track, having incremented the index to idx, ends the session.
next_track_past_last_off_by_one(idx) == idx > Len(tracks)
next_track_past_last(idx) == idx >= Len(tracks)

\* The state end_session moves to.
end_session_target == "ENDED"

\* What a Session operation leaves alone outside the Session.
SessionFrame == UNCHANGED <<tracks, spliceVars, recVars, audioVars, restVars>>

\* Session.start()
start ==
    /\ call' = [op |-> "start", from |-> state]
    /\ IF ~start_guard
       THEN UNCHANGED <<state, current_track_index, events,
                        recording_frame_start, had_back_to_start>>
       ELSE /\ Len(events) < MaxLog
            /\ current_track_index' = 0
            /\ events' = logged(events, 0, "session_start",
                                S_instrument \o Instrument)
            /\ state' = "WAITING"
            /\ UNCHANGED <<recording_frame_start, had_back_to_start>>
    /\ SessionFrame

\* Session.start_recording(recording_frame)
start_recording(recording_frame) ==
    /\ call' = [op |-> "start_recording", from |-> state]
    /\ IF ~start_recording_guard
       THEN UNCHANGED <<state, current_track_index, events,
                        recording_frame_start, had_back_to_start>>
       ELSE /\ Len(events) < MaxLog
            /\ recording_frame_start' =
                   start_recording_frame_start(recording_frame)
            /\ had_back_to_start' = start_recording_flag
            /\ events' = logged(events, current_track_index, "record_start",
                                frame_details(recording_frame))
            /\ state' = "PLAYING"
            /\ UNCHANGED current_track_index
    /\ SessionFrame

\* Session.back_to_start(recording_frame)
back_to_start(recording_frame) ==
    /\ call' = [op |-> "back_to_start", from |-> state]
    /\ IF ~back_to_start_guard
       THEN UNCHANGED <<state, current_track_index, events,
                        recording_frame_start, had_back_to_start>>
       ELSE /\ Len(events) < MaxLog
            /\ had_back_to_start' = TRUE
            /\ events' = logged(events, current_track_index, "back_to_start",
                                frame_details(recording_frame))
            /\ recording_frame_start' = recording_frame
            /\ UNCHANGED <<state, current_track_index>>
    /\ SessionFrame

\* Session.song_end(recording_frame)
song_end(recording_frame) ==
    /\ call' = [op |-> "song_end", from |-> state]
    /\ IF ~song_end_guard
       THEN UNCHANGED <<state, current_track_index, events,
                        recording_frame_start, had_back_to_start>>
       ELSE /\ Len(events) < MaxLog
            /\ events' = logged(events, current_track_index, "song_end",
                                song_end_details(recording_frame,
                                                 had_back_to_start))
            /\ state' = "BETWEEN_TRACKS"
            /\ UNCHANGED <<current_track_index, recording_frame_start,
                           had_back_to_start>>
    /\ SessionFrame

\* Session.next_track(), with the end_session() it calls past the last track
next_track ==
    /\ call' = [op |-> "next_track", from |-> state]
    /\ IF ~next_track_guard
       THEN UNCHANGED <<state, current_track_index, events,
                        recording_frame_start, had_back_to_start>>
       ELSE /\ Len(events) < MaxLog
            /\ current_track_index' = current_track_index + 1
            /\ IF next_track_past_last(current_track_index + 1)
               THEN /\ events' = logged(events, current_track_index + 1,
                                        "session_end", <<>>)
                    /\ state' = end_session_target
               ELSE /\ events' = logged(events, current_track_index + 1,
                                        "next_track", <<>>)
                    /\ state' = "WAITING"
            /\ UNCHANGED <<recording_frame_start, had_back_to_start>>
    /\ SessionFrame

\* Session.end_session()
end_session ==
    /\ call' = [op |-> "end_session", from |-> state]
    /\ Len(events) < MaxLog
    /\ events' = logged(events, current_track_index, "session_end", <<>>)
    /\ state' = end_session_target
    /\ UNCHANGED <<current_track_index, recording_frame_start,
                   had_back_to_start>>
    /\ SessionFrame

\* Session.__init__ over a setlist of 0..MaxTracks tracks
SessionInit ==
    /\ state = "IDLE"
    /\ current_track_index = 0
    /\ events = <<>>
    /\ recording_frame_start = 0
    /\ had_back_to_start = FALSE
    /\ tracks \in {SubSeq(NamePool, 1, n) : n \in 0..MaxTracks}
    /\ call = [op |-> "__init__", from |-> "IDLE"]

SessionNext ==
    \/ start
    \/ \E f \in Frames : start_recording(f)
    \/ \E f \in Frames : back_to_start(f)
    \/ \E f \in Frames : song_end(f)
    \/ next_track
    \/ end_session


\* ---------------------------------------------------------------- Splicer
\* _parse_frame(details): the int after "frame=" in the first part that
\* starts with it, 0 when no part does.
RECURSIVE first_frame_part(_)
first_frame_part(parts) ==
    IF parts = <<>> THEN 0
    ELSE LET part == Strip(Head(parts))
         IN IF StartsWith(part, S_frame)
            THEN ParseInt(Split(part, "=")[2])
            ELSE first_frame_part(Tail(parts))

parse_frame(details) == first_frame_part(Split(details, ","))

\* The test of the song_end branch: is a CompletedTake appended?
song_end_emits_ignoring_restart == current_start_frame # Nothing
song_end_emits == current_start_frame # Nothing /\ ~had_restart

\* The value the song_end branch leaves in current_start_frame.
song_end_start_frame_kept == current_start_frame
song_end_start_frame == Nothing

\* The CompletedTake the song_end branch appends.
CompletedTake(track_index, track_name, start_frame, end_frame) ==
    [track_index |-> track_index, track_name |-> track_name,
     start_frame |-> start_frame, end_frame |-> end_frame]

\* One iteration of the for loop of parse_session_log, on events[ev_i].
parse_event ==
    /\ ev_i < Len(log)
    /\ LET event == log[ev_i + 1]
           etype == event.event_type
           frame == parse_frame(event.details)
       IN /\ ev_i' = ev_i + 1
          /\ \/ /\ etype = "record_start"
                /\ current_start_frame' = <<frame>>
                /\ p_track_index' = event.track_index
                /\ p_track_name' = event.track_name
                /\ had_restart' = FALSE
                /\ UNCHANGED completed
             \/ /\ etype = "back_to_start"
                /\ had_restart' = TRUE
                /\ current_start_frame' = <<frame>>
                /\ UNCHANGED <<completed, p_track_index, p_track_name>>
             \/ /\ etype = "song_end"
                /\ completed' =
                       IF song_end_emits
                       THEN Append(completed,
                                   CompletedTake(p_track_index, p_track_name,
                                                 current_start_frame[1], frame))
                       ELSE completed
                /\ current_start_frame' = song_end_start_frame
                /\ had_restart' = FALSE
                /\ UNCHANGED <<p_track_index, p_track_name>>
             \/ /\ etype \notin {"record_start", "back_to_start", "song_end"}
                /\ UNCHANGED <<completed, current_start_frame, p_track_index,
                               p_track_name, had_restart>>
    /\ UNCHANGED <<log, sessVars, recVars, audioVars, restVars>>

\* An event of a serialized log.
LogEvent(event_type, track_index, details) ==
    [event_type |-> event_type, track_index |-> track_index,
     track_name |-> NamePool[track_index + 1], details |-> details]

\* The events the replayed logs are made of.
SpliceEvents ==
    {LogEvent("record_start", t, frame_details(f)) : t \in {0, 1}, f \in {0, 400}}
    \cup {LogEvent("back_to_start", 0, frame_details(400))}
    \cup {LogEvent("song_end", 0, d) :
             d \in {<<>>, song_end_details(1200, FALSE),
                    song_end_details(1200, TRUE)}}
    \cup {LogEvent("next_track", 1, <<>>)}

\* The locals of parse_session_log before its loop, over any log of at most
\* MaxEvents events.
SpliceInit ==
    /\ log \in UNION {[1..n -> SpliceEvents] : n \in 0..MaxEvents}
    /\ ev_i = 0
    /\ completed = <<>>
    /\ current_start_frame = Nothing
    /\ p_track_index = 0
    /\ p_track_name = ""
    /\ had_restart = FALSE

SpliceNext == parse_event


\* --------------------------------------------------------------- Recorder
\* What a Recorder step leaves alone outside the Recorder.
RecorderFrame == UNCHANGED <<sessVars, spliceVars, audioVars, restVars>>

\* Recorder.start(): open the file, set _running, start the writer thread.
\* A Recorder is started once (AudioEngine.start_recording makes a new one).
rec_start ==
    /\ s_pc \in {"idle", "raised"}
    /\ r_thread = None
    /\ r_file' = "obj"
    /\ f_open' = TRUE
    /\ r_running' = TRUE
    /\ r_thread' = "thread"
    /\ d_pc' = "while_running"
    /\ UNCHANGED <<f_data, r_buffer, r_lock, frames_written, w_pc, w_data,
                   d_chunk, d_tmp, s_pc, s_chunk, s_tmp, pushed, stops,
                   stop_calls, join_timed_out, write_after_close>>
    /\ RecorderFrame

\* Recorder.write(data), entered by the real-time thread with a block of n frames.
write_call(n) ==
    /\ w_pc = "idle"
    /\ Len(pushed) < MaxBlocks
    /\ w_data' = <<[id |-> Len(pushed) + 1, len |-> n]>>
    /\ pushed' = Append(pushed, [id |-> Len(pushed) + 1, len |-> n])
    /\ w_pc' = "acquire"
    /\ UNCHANGED <<r_file, f_open, f_data, r_buffer, r_lock, r_thread,
                   r_running, frames_written, d_pc, d_chunk, d_tmp, s_pc,
                   s_chunk, s_tmp, stops, stop_calls, join_timed_out,
                   write_after_close>>
    /\ RecorderFrame

\* write: with self._lock
write_acquire ==
    /\ w_pc = "acquire"
    /\ r_lock = "free"
    /\ r_lock' = "rt"
    /\ w_pc' = "append"
    /\ UNCHANGED <<r_file, f_open, f_data, r_buffer, r_thread, r_running,
                   frames_written, w_data, d_pc, d_chunk, d_tmp, s_pc, s_chunk,
                   s_tmp, pushed, stops, stop_calls, join_timed_out,
                   write_after_close>>
    /\ RecorderFrame

\* write: self._buffer.append(data.copy())
write_append ==
    /\ w_pc = "append"
    /\ r_buffer' = Append(r_buffer, w_data[1])
    /\ w_pc' = "release"
    /\ UNCHANGED <<r_file, f_open, f_data, r_lock, r_thread, r_running,
                   frames_written, w_data, d_pc, d_chunk, d_tmp, s_pc, s_chunk,
                   s_tmp, pushed, stops, stop_calls, join_timed_out,
                   write_after_close>>
    /\ RecorderFrame

\* write: leaving the with block
write_release ==
    /\ w_pc = "release"
    /\ r_lock' = "free"
    /\ w_pc' = "idle"
    /\ w_data' = Nothing
    /\ UNCHANGED <<r_file, f_open, f_data, r_buffer, r_thread, r_running,
                   frames_written, d_pc, d_chunk, d_tmp, s_pc, s_chunk, s_tmp,
                   pushed, stops, stop_calls, join_timed_out, write_after_close>>
    /\ RecorderFrame

\* What a step of the drain thread leaves alone.
DrainFrame ==
    /\ UNCHANGED <<r_file, f_open, r_thread, r_running, w_pc, w_data, s_pc,
                   s_chunk, s_tmp, pushed, stops, stop_calls, join_timed_out>>
    /\ RecorderFrame

\* _writer_loop: while self._running ...
drain_while_running ==
    /\ d_pc = "while_running"
    /\ d_pc' = IF r_running THEN "acquire" ELSE "while_buffer"
    /\ d_chunk' = Nothing
    /\ UNCHANGED <<f_data, r_buffer, r_lock, frames_written, d_tmp,
                   write_after_close>>
    /\ DrainFrame

\* _writer_loop: ... or self._buffer
drain_while_buffer ==
    /\ d_pc = "while_buffer"
    /\ d_pc' = IF r_buffer # <<>> THEN "acquire" ELSE "done"
    /\ UNCHANGED <<f_data, r_buffer, r_lock, frames_written, d_chunk, d_tmp,
                   write_after_close>>
    /\ DrainFrame

\* _writer_loop: with self._lock
drain_acquire ==
    /\ d_pc = "acquire"
    /\ r_lock = "free"
    /\ r_lock' = "drain"
    /\ d_pc' = "if_buffer"
    /\ UNCHANGED <<f_data, r_buffer, frames_written, d_chunk, d_tmp,
                   write_after_close>>
    /\ DrainFrame

\* _writer_loop: if self._buffer
drain_if_buffer ==
    /\ d_pc = "if_buffer"
    /\ d_pc' = IF r_buffer # <<>> THEN "popleft" ELSE "release"
    /\ UNCHANGED <<f_data, r_buffer, r_lock, frames_written, d_chunk, d_tmp,
                   write_after_close>>
    /\ DrainFrame

\* _writer_loop: chunk = self._buffer.popleft(); on an empty deque IndexError
\* leaves the with block (releasing the lock) and ends the thread.
drain_popleft ==
    /\ d_pc = "popleft"
    /\ \/ /\ r_buffer # <<>>
          /\ d_chunk' = <<Head(r_buffer)>>
          /\ r_buffer' = Tail(r_buffer)
          /\ d_pc' = "release"
          /\ UNCHANGED r_lock
       \/ /\ r_buffer = <<>>
          /\ r_lock' = "free"
          /\ d_pc' = "crashed"
          /\ UNCHANGED <<d_chunk, r_buffer>>
    /\ UNCHANGED <<f_data, frames_written, d_tmp, write_after_close>>
    /\ DrainFrame

\* _writer_loop: leaving the with block, before the file write (the variant
\* keeps the lock over the write)
drain_release_after_write ==
    /\ d_pc = "release"
    /\ d_pc' = "if_chunk"
    /\ UNCHANGED <<f_data, r_buffer, r_lock, frames_written, d_chunk, d_tmp,
                   write_after_close>>
    /\ DrainFrame
drain_release ==
    /\ d_pc = "release"
    /\ r_lock' = "free"
    /\ d_pc' = "if_chunk"
    /\ UNCHANGED <<f_data, r_buffer, frames_written, d_chunk, d_tmp,
                   write_after_close>>
    /\ DrainFrame

\* _writer_loop: if chunk is not None and self._file is not None
drain_if_chunk ==
    /\ d_pc = "if_chunk"
    /\ d_pc' = IF d_chunk # Nothing /\ r_file # None THEN "write_call"
               ELSE "elif_running"
    /\ UNCHANGED <<f_data, r_buffer, r_lock, frames_written, d_chunk, d_tmp,
                   write_after_close>>
    /\ DrainFrame

\* _writer_loop: self._file.write(chunk) is called. self._file is read again:
\* None has no write (AttributeError), and a closed SoundFile refuses the
\* write (it raises); either exception ends the thread.
drain_write_call ==
    /\ d_pc = "write_call"
    /\ \/ /\ r_file = None
          /\ d_pc' = "crashed"
          /\ UNCHANGED write_after_close
       \/ /\ r_file # None /\ ~f_open
          /\ d_pc' = "crashed"
          /\ write_after_close' = TRUE
       \/ /\ r_file # None /\ f_open
          /\ d_pc' = "in_write"
          /\ UNCHANGED write_after_close
    /\ UNCHANGED <<f_data, r_buffer, r_lock, frames_written, d_chunk, d_tmp>>
    /\ DrainFrame

\* _writer_loop: self._file.write(chunk) returns. A file closed under the
\* write in progress is undefined in libsndfile: the block reaches the file
\* or it does not and the write raises.
drain_in_write ==
    /\ d_pc = "in_write"
    /\ \/ /\ f_data' = Append(f_data, d_chunk[1])
          /\ d_pc' = "count_read"
       \/ /\ ~f_open
          /\ d_pc' = "crashed"
          /\ UNCHANGED f_data
    /\ UNCHANGED <<r_buffer, r_lock, frames_written, d_chunk, d_tmp,
                   write_after_close>>
    /\ DrainFrame

\* _writer_loop: self.frames_written += len(chunk), the read
drain_count_read ==
    /\ d_pc = "count_read"
    /\ d_tmp' = frames_written
    /\ d_pc' = "count_write"
    /\ UNCHANGED <<f_data, r_buffer, r_lock, frames_written, d_chunk,
                   write_after_close>>
    /\ DrainFrame

\* _writer_loop: self.frames_written += len(chunk), the store
drain_count_write ==
    /\ d_pc = "count_write"
    /\ frames_written' = d_tmp + d_chunk[1].len
    /\ d_pc' = "while_running"
    /\ UNCHANGED <<f_data, r_buffer, r_lock, d_chunk, d_tmp, write_after_close>>
    /\ DrainFrame

\* _writer_loop: elif self._running
drain_elif_running ==
    /\ d_pc = "elif_running"
    /\ d_pc' = IF r_running THEN "wait" ELSE "while_running"
    /\ UNCHANGED <<f_data, r_buffer, r_lock, frames_written, d_chunk, d_tmp,
                   write_after_close>>
    /\ DrainFrame

\* _writer_loop: threading.Event().wait(0.01)
drain_wait ==
    /\ d_pc = "wait"
    /\ d_pc' = "while_running"
    /\ UNCHANGED <<f_data, r_buffer, r_lock, frames_written, d_chunk, d_tmp,
                   write_after_close>>
    /\ DrainFrame


\* What a step of stop() leaves alone.
StopFrame ==
    /\ UNCHANGED <<r_lock, r_thread, w_pc, w_data, d_pc, d_chunk, d_tmp,
                   pushed, write_after_close>>
    /\ RecorderFrame

\* Whether join(timeout=5.0) may return with the writer thread still alive.
join_never_times_out == FALSE
join_may_time_out == TRUE

\* Recorder.stop(): self._running = False; if self._writer_thread
stop_call ==
    /\ s_pc \in {"idle", "raised"}
    /\ stop_calls < MaxStops
    /\ stop_calls' = stop_calls + 1
    /\ r_running' = FALSE
    /\ s_pc' = IF r_thread # None THEN "join" ELSE "while_buffer"
    /\ UNCHANGED <<r_file, f_open, f_data, r_buffer, frames_written, s_chunk,
                   s_tmp, stops, join_timed_out>>
    /\ StopFrame

\* stop: self._writer_thread.join(timeout=5.0) returns, the thread over or
\* the timeout elapsed
stop_join ==
    /\ s_pc = "join"
    /\ \/ /\ d_pc \in {"done", "crashed"}
          /\ UNCHANGED join_timed_out
       \/ /\ d_pc \notin {"done", "crashed"}
          /\ join_may_time_out
          /\ join_timed_out' = TRUE
    /\ s_pc' = "while_buffer"
    /\ UNCHANGED <<r_file, f_open, f_data, r_buffer, r_running, frames_written,
                   s_chunk, s_tmp, stops, stop_calls>>
    /\ StopFrame

\* stop: while self._buffer
stop_while_buffer ==
    /\ s_pc = "while_buffer"
    /\ s_pc' = IF r_buffer # <<>> THEN "popleft" ELSE "close"
    /\ UNCHANGED <<r_file, f_open, f_data, r_buffer, r_running, frames_written,
                   s_chunk, s_tmp, stops, stop_calls, join_timed_out>>
    /\ StopFrame

\* stop: chunk = self._buffer.popleft(), taken without the lock; on an empty
\* deque IndexError leaves stop()
stop_popleft ==
    /\ s_pc = "popleft"
    /\ \/ /\ r_buffer # <<>>
          /\ s_chunk' = <<Head(r_buffer)>>
          /\ r_buffer' = Tail(r_buffer)
          /\ s_pc' = "write"
       \/ /\ r_buffer = <<>>
          /\ s_pc' = "raised"
          /\ UNCHANGED <<s_chunk, r_buffer>>
    /\ UNCHANGED <<r_file, f_open, f_data, r_running, frames_written, s_tmp,
                   stops, stop_calls, join_timed_out>>
    /\ StopFrame

\* stop: if self._file is not None: self._file.write(chunk)
stop_write ==
    /\ s_pc = "write"
    /\ IF r_file # None
       THEN /\ f_data' = Append(f_data, s_chunk[1])
            /\ s_pc' = "count_read"
       ELSE /\ s_pc' = "while_buffer"
            /\ UNCHANGED f_data
    /\ UNCHANGED <<r_file, f_open, r_buffer, r_running, frames_written,
                   s_chunk, s_tmp, stops, stop_calls, join_timed_out>>
    /\ StopFrame

\* stop: self.frames_written += len(chunk), the read
stop_count_read ==
    /\ s_pc = "count_read"
    /\ s_tmp' = frames_written
    /\ s_pc' = "count_write"
    /\ UNCHANGED <<r_file, f_open, f_data, r_buffer, r_running, frames_written,
                   s_chunk, stops, stop_calls, join_timed_out>>
    /\ StopFrame

\* stop: self.frames_written += len(chunk), the store
stop_count_write ==
    /\ s_pc = "count_write"
    /\ frames_written' = s_tmp + s_chunk[1].len
    /\ s_pc' = "while_buffer"
    /\ UNCHANGED <<r_file, f_open, f_data, r_buffer, r_running, s_chunk,
                   s_tmp, stops, stop_calls, join_timed_out>>
    /\ StopFrame

\* stop: if self._file is not None: self._file.close(); otherwise stop returns
stop_close ==
    /\ s_pc = "close"
    /\ IF r_file # None
       THEN /\ f_open' = FALSE
            /\ s_pc' = "set_none"
            /\ UNCHANGED stops
       ELSE /\ s_pc' = "idle"
            /\ stops' = stops + 1
            /\ UNCHANGED f_open
    /\ UNCHANGED <<r_file, f_data, r_buffer, r_running, frames_written,
                   s_chunk, s_tmp, stop_calls, join_timed_out>>
    /\ StopFrame

\* stop: self._file = None, and stop returns
stop_set_none ==
    /\ s_pc = "set_none"
    /\ r_file' = None
    /\ s_pc' = "idle"
    /\ stops' = stops + 1
    /\ UNCHANGED <<f_open, f_data, r_buffer, r_running, frames_written,
                   s_chunk, s_tmp, stop_calls, join_timed_out>>
    /\ StopFrame

\* Recorder.__init__
RecorderInit ==
    /\ r_file = None
    /\ f_open = FALSE
    /\ f_data = <<>>
    /\ r_buffer = <<>>
    /\ r_lock = "free"
    /\ r_thread = None
    /\ r_running = FALSE
    /\ frames_written = 0
    /\ w_pc = "idle" /\ w_data = Nothing
    /\ d_pc = "none" /\ d_chunk = Nothing /\ d_tmp = 0
    /\ s_pc = "idle" /\ s_chunk = Nothing /\ s_tmp = 0
    /\ pushed = <<>>
    /\ stops = 0
    /\ stop_calls = 0
    /\ join_timed_out = FALSE
    /\ write_after_close = FALSE

\* The steps of the drain thread.
drain_step ==
    \/ drain_while_running
    \/ drain_while_buffer
    \/ drain_acquire
    \/ drain_if_buffer
    \/ drain_popleft
    \/ drain_release
    \/ drain_if_chunk
    \/ drain_write_call
    \/ drain_in_write
    \/ drain_count_read
    \/ drain_count_write
    \/ drain_elif_running
    \/ drain_wait

\* The steps of stop() after its call.
stop_step ==
    \/ stop_join
    \/ stop_while_buffer
    \/ stop_popleft
    \/ stop_write
    \/ stop_count_read
    \/ stop_count_write
    \/ stop_close
    \/ stop_set_none

\* The Recorder as the engine drives it: the real-time thread pushes blocks
\* while the recorder runs, and stop() is called with no write() in progress.
RecorderNext ==
    \/ rec_start
    \/ \E n \in 1..MaxBlockLen : r_running /\ write_call(n)
    \/ write_acquire
    \/ write_append
    \/ write_release
    \/ drain_step
    \/ w_pc = "idle" /\ stop_call
    \/ stop_step

\* ------------------------------------------------------------------ Mixer
\* Samples are fixed-point numbers: One stands for the float 1.0, so that a
\* sample of a file ranges over -One .. One. Volumes are whole numbers, which
\* keeps every product exact.
One == 2
Volumes == {1, 2}
SourceNames == {"backing", "take"}

\* What read_audio does with a path: it returns an (N, channels) array, mono
\* as (N, 1) and stereo as (N, 2), as its docstring says, where N may be 0; or
\* it raises (sf.read on a missing or corrupt file, RuntimeError when ffmpeg
\* fails), and the file is then not readable.
FileEmpty == [readable |-> TRUE, channels |-> 2, frames |-> <<>>]
FileMono == [readable |-> TRUE, channels |-> 1, frames |-> << <<2>>, <<-1>> >>]
FileStereo ==
    [readable |-> TRUE, channels |-> 2,
     frames |-> << <<1, -2>>, <<2, 2>>, <<-1, 1>> >>]
FileUnreadable == [readable |-> FALSE, channels |-> 0, frames |-> <<>>]
AudioFiles == {FileEmpty, FileMono, FileStereo, FileUnreadable}

\* The trim_frames values callers pass (__main__.py:409, 613, 975).
TrimFrames == {0, 1}

\* What a Mixer step leaves alone outside the Mixer.
MixerFrame == UNCHANGED <<sessVars, spliceVars, recVars, restVars>>

\* MixSource(name=name, data=data, volume=volume); active defaults to True.
MixSource(name, data, volume) ==
    [name |-> name, data |-> data, volume |-> volume, active |-> TRUE]

\* add_source: a mono array becomes stereo by doubling its column.
to_stereo(file) ==
    IF file.channels = 1
    THEN [i \in 1..Len(file.frames) |-> <<file.frames[i][1], file.frames[i][1]>>]
    ELSE file.frames

\* The record of a Mixer call: its name, its arguments and whether it raised.
MixerCall(op, args, raised) == [op |-> op, args |-> args, raised |-> raised]

\* The source list add_source leaves when read_audio raises at line 37 (the
\* variant appends a source without samples).
failed_decode_sources_placeholder(name, volume) ==
    Append(sources, MixSource(name, <<>>, volume))
failed_decode_sources(name, volume) == sources

\* Mixer.add_source(name, path, volume), also called with trim_frames=k by
\* the CLI: the signature has no trim_frames, so such a call raises TypeError
\* before the body runs. Otherwise the error read_audio raises leaves the
\* body at line 37.
add_source(name, file, volume, trim_frames) ==
    /\ Len(sources) < MaxSources
    /\ IF trim_frames # Nothing
       THEN /\ m_call' = MixerCall("add_source",
                                   <<name, file, volume, trim_frames>>, TRUE)
            /\ UNCHANGED sources
       ELSE IF ~file.readable
       THEN /\ m_call' = MixerCall("add_source",
                                   <<name, file, volume, trim_frames>>, TRUE)
            /\ sources' = failed_decode_sources(name, volume)
       ELSE /\ sources' = Append(sources, MixSource(name, to_stereo(file), volume))
            /\ m_call' = MixerCall("add_source",
                                   <<name, file, volume, trim_frames>>, FALSE)
    /\ m_out' = <<>>
    /\ UNCHANGED <<position, playing>>
    /\ MixerFrame

\* The source list after clear() (the variant keeps it).
clear_sources_kept == sources
clear_sources == <<>>

\* Mixer.clear()
clear ==
    /\ sources' = clear_sources
    /\ position' = 0
    /\ m_call' = MixerCall("clear", <<>>, FALSE)
    /\ m_out' = <<>>
    /\ UNCHANGED playing
    /\ MixerFrame

\* The lengths of the active sources.
active_lengths ==
    {Len(sources[i].data) : i \in {j \in DOMAIN sources : sources[j].active}}

\* max(...) of line 55 over a set that is not empty.
SetMax(S) == CHOOSE x \in S : \A y \in S : y <= x

\* Mixer.duration_frames raises ValueError when max() gets no length: there
\* are sources and none is active.
duration_frames_raises == sources # <<>> /\ active_lengths = {}

\* Mixer.duration_frames, when it does not raise.
duration_frames == IF sources = <<>> THEN 0 ELSE SetMax(active_lengths)

\* Mixer.seek(frame)
seek(frame) ==
    /\ position' = IF frame > 0 THEN frame ELSE 0
    /\ m_call' = MixerCall("seek", <<frame>>, FALSE)
    /\ m_out' = <<>>
    /\ UNCHANGED <<sources, playing>>
    /\ MixerFrame

\* The cursor after reset() (the variant leaves it where it is).
reset_position_kept == position
reset_position == 0

\* Mixer.reset()
reset ==
    /\ position' = reset_position
    /\ m_call' = MixerCall("reset", <<>>, FALSE)
    /\ m_out' = <<>>
    /\ UNCHANGED <<sources, playing>>
    /\ MixerFrame

\* Mixer.set_playing(playing)
set_playing(p) ==
    /\ playing' = p
    /\ m_call' = MixerCall("set_playing", <<p>>, FALSE)
    /\ m_out' = <<>>
    /\ UNCHANGED <<sources, position>>
    /\ MixerFrame

\* Mixer.is_finished, when duration_frames does not raise.
is_finished == position >= duration_frames /\ duration_frames > 0

\* np.clip(x, -1.0, 1.0) on one sample (the variant does not clip).
clip_dropped(x) == x
clip(x) == IF x < -One THEN -One ELSE IF x > One THEN One ELSE x

\* read: what one source adds to channel ch of frame i (counted from 1) of a
\* block of the given number of frames read at cursor start_pos.
source_block(source, start_pos, i, ch, frames) ==
    LET src_len == Len(source.data)
        end_pos == start_pos + frames
        actual_end == IF end_pos < src_len THEN end_pos ELSE src_len
        n == actual_end - start_pos
    IN  IF ~source.active \/ start_pos >= src_len \/ i > n
        THEN 0
        ELSE source.data[start_pos + i][ch] * source.volume

\* read: the sum over the first k sources.
RECURSIVE mix(_, _, _, _, _)
mix(k, start_pos, i, ch, frames) ==
    IF k = 0 THEN 0
    ELSE mix(k - 1, start_pos, i, ch, frames)
         + source_block(sources[k], start_pos, i, ch, frames)

\* read: the block returned, silence when not playing.
read_output(frames) ==
    IF ~playing
    THEN [i \in 1..frames |-> <<0, 0>>]
    ELSE [i \in 1..frames |->
            <<clip(mix(Len(sources), position, i, 1, frames)),
              clip(mix(Len(sources), position, i, 2, frames))>>]

\* read: the cursor after a read while playing (the variant stops at the end
\* of the longest source).
read_position_clamped(frames) ==
    IF position + frames > duration_frames /\ position <= duration_frames
    THEN duration_frames ELSE position + frames
read_position(frames) == position + frames

\* Mixer.read(frames)
read(frames) ==
    /\ ~playing \/ position + frames <= MaxPosition
    /\ m_out' = read_output(frames)
    /\ position' = IF playing THEN read_position(frames) ELSE position
    /\ m_call' = MixerCall("read", <<frames>>, FALSE)
    /\ UNCHANGED <<sources, playing>>
    /\ MixerFrame

\* set_volume: the index of the first source of that name, 0 when none has it
\* (the variant takes the first source when none has the name).
first_named_or_first(name) ==
    LET named == {i \in DOMAIN sources : sources[i].name = name}
    IN  IF named = {} THEN (IF sources = <<>> THEN 0 ELSE 1)
        ELSE CHOOSE i \in named : \A j \in named : i <= j
first_named(name) ==
    LET named == {i \in DOMAIN sources : sources[i].name = name}
    IN  IF named = {} THEN 0 ELSE CHOOSE i \in named : \A j \in named : i <= j

\* Mixer.set_volume(name, volume)
set_volume(name, volume) ==
    /\ sources' = IF first_named(name) = 0 THEN sources
                  ELSE [sources EXCEPT ![first_named(name)].volume = volume]
    /\ m_call' = MixerCall("set_volume", <<name, volume>>, FALSE)
    /\ m_out' = <<>>
    /\ UNCHANGED <<position, playing>>
    /\ MixerFrame

\* Mixer.__init__
MixerInit ==
    /\ sources = <<>>
    /\ position = 0
    /\ playing = FALSE
    /\ m_out = <<>>
    /\ m_call = MixerCall("__init__", <<>>, FALSE)

\* The Mixer as one thread drives it, outside an engine.
MixerNext ==
    \/ \E name \in SourceNames, file \in AudioFiles, volume \in Volumes,
          trim_frames \in {Nothing} \cup {<<k>> : k \in TrimFrames} :
            add_source(name, file, volume, trim_frames) /\ UNCHANGED engVars
    \/ clear /\ UNCHANGED engVars
    \/ \E frame \in -1..MaxPosition : seek(frame) /\ UNCHANGED engVars
    \/ reset /\ UNCHANGED engVars
    \/ \E p \in BOOLEAN : set_playing(p) /\ UNCHANGED engVars
    \/ \E frames \in 0..MaxRead : read(frames) /\ UNCHANGED engVars
    \/ \E name \in SourceNames, volume \in Volumes :
            set_volume(name, volume) /\ UNCHANGED engVars

\* ------------------------------------------------------------ AudioEngine
\* The channel counts an engine is configured with.
ChannelCounts == {1, 2, 3}

\* The first channel of the input blocks the driver hands over: one sample
\* per frame.
InputBlocks == {<<2>>, <<-1, 2>>}

\* What the driver's output buffer holds where the callback writes nothing.
StaleSamples == {0, One}

\* The record of an AudioEngine call.
EngineCall(op, raised) == [op |-> op, raised |-> raised]

\* What a step of the engine that does not touch the Mixer leaves alone.
EngineFrame == UNCHANGED <<sessVars, spliceVars, recVars, mixVars, restVars>>

\* AudioEngine.set_on_song_end(callback)
set_on_song_end(handler) ==
    /\ on_song_end' = handler
    /\ e_call' = EngineCall("set_on_song_end", FALSE)
    /\ UNCHANGED <<e_stream, e_running, recorder, recorders, output_channels,
                   peak_level, indata, outdata, wrote, cb_pc, threads, notified>>
    /\ EngineFrame

\* AudioEngine.start_recording(output_path): a new Recorder replaces
\* self.recorder and is started; the Recorder it replaces is not touched.
eng_start_recording ==
    /\ Len(recorders) < MaxRecorders
    /\ recorders' = Append(recorders, "active")
    /\ recorder' = <<Len(recorders) + 1>>
    /\ e_call' = EngineCall("start_recording", FALSE)
    /\ UNCHANGED <<e_stream, e_running, on_song_end, output_channels,
                   peak_level, indata, outdata, wrote, cb_pc, threads, notified>>
    /\ EngineFrame

\* stop_recording: the recorders after it, Recorder.stop() taken to return.
recorders_after_stop ==
    IF recorder # Nothing
    THEN [recorders EXCEPT ![recorder[1]] = "stopped"]
    ELSE recorders

\* AudioEngine.stop_recording()
eng_stop_recording ==
    /\ recorders' = recorders_after_stop
    /\ recorder' = Nothing
    /\ e_call' = EngineCall("stop_recording", FALSE)
    /\ UNCHANGED <<e_stream, e_running, on_song_end, output_channels,
                   peak_level, indata, outdata, wrote, cb_pc, threads, notified>>
    /\ EngineFrame

\* AudioEngine.start(): nothing when running, else the stream is opened and
\* started.
eng_start ==
    /\ IF e_running
       THEN UNCHANGED <<e_stream, e_running>>
       ELSE e_stream' = "stream" /\ e_running' = TRUE
    /\ e_call' = EngineCall("start", FALSE)
    /\ UNCHANGED <<recorder, recorders, on_song_end, output_channels,
                   peak_level, indata, outdata, wrote, cb_pc, threads, notified>>
    /\ EngineFrame

\* AudioEngine.start() when the driver fails: sd.Stream(...) raises at lines
\* 112-120 and self._stream keeps its value, or the stream is opened and
\* self._stream.start() raises at line 121, leaving the opened stream in
\* self._stream and _running False.
eng_start_raises(opened) ==
    /\ ~e_running
    /\ e_stream' = IF opened THEN "opened" ELSE e_stream
    /\ e_call' = EngineCall("start", TRUE)
    /\ UNCHANGED <<e_running, recorder, recorders, on_song_end,
                   output_channels, peak_level, indata, outdata, wrote, cb_pc,
                   threads, notified>>
    /\ EngineFrame

\* stop: self._running = False (the variant flips the flag)
stop_running_flipped == ~e_running
stop_running == FALSE

\* AudioEngine.stop(): stream.stop() returns once the callback in progress
\* is over; then the stream is closed and stop_recording() is called.
eng_stop ==
    /\ cb_pc = "idle"
    /\ e_running' = stop_running
    /\ e_stream' = None
    /\ recorders' = recorders_after_stop
    /\ recorder' = Nothing
    /\ e_call' = EngineCall("stop", FALSE)
    /\ UNCHANGED <<on_song_end, output_channels, peak_level, indata, outdata,
                   wrote, cb_pc, threads, notified>>
    /\ EngineFrame

\* np.max(np.abs(mono))
Abs(x) == IF x < 0 THEN -x ELSE x
peak(mono) == SetMax({Abs(mono[i]) : i \in DOMAIN mono})

\* _callback: the output block. With two channels the mix is copied and the
\* input added to both; otherwise channel 0 alone is assigned and every other
\* channel keeps what the buffer held; the whole block is clipped.
callback_outdata(mix_block, mono, stale) ==
    [i \in DOMAIN mono |->
        [ch \in 1..output_channels |->
            IF output_channels = 2
            THEN clip(mix_block[i][ch] + mono[i])
            ELSE IF ch = 1 THEN clip(mix_block[i][1] + mono[i])
                 ELSE clip(stale)]]

\* _callback, lines 75-97: the input goes to the recorder, the peak level is
\* set, the mixer is read and the output block is filled.
callback_body(mono, stale) ==
    /\ e_stream = "stream"
    /\ cb_pc = "idle"
    /\ threads < MaxThreads
    /\ read(Len(mono))
    /\ wrote' = recorder
    /\ peak_level' = peak(mono)
    /\ indata' = mono
    /\ outdata' = callback_outdata(read_output(Len(mono)), mono, stale)
    /\ cb_pc' = "check"
    /\ UNCHANGED <<e_stream, e_running, recorder, recorders, on_song_end,
                   output_channels, threads, notified, e_call>>

\* _callback returns: its blocks go back to the driver.
callback_return ==
    /\ cb_pc' = "idle"
    /\ indata' = <<>>
    /\ outdata' = <<>>
    /\ wrote' = Nothing
    /\ m_out' = <<>>

\* _callback, line 100: if self.mixer.is_playing and self.mixer.is_finished;
\* the callback returns when the test fails.
callback_check ==
    /\ cb_pc = "check"
    /\ IF playing /\ is_finished
       THEN /\ cb_pc' = "end"
            /\ UNCHANGED <<indata, outdata, wrote, m_out>>
       ELSE callback_return
    /\ UNCHANGED <<e_stream, e_running, recorder, recorders, on_song_end,
                   output_channels, peak_level, threads, notified, e_call>>
    /\ UNCHANGED <<sources, position, playing, m_call>>
    /\ UNCHANGED <<sessVars, spliceVars, recVars, restVars>>

\* _callback, line 101: the playing flag the song end leaves (the variant
\* leaves the mixer playing)
song_end_playing_kept == playing
song_end_playing == FALSE

\* _callback, lines 101-104: the mixer is stopped and, with a handler set, a
\* thread is started to run it.
callback_end ==
    /\ cb_pc = "end"
    /\ set_playing(song_end_playing)
    /\ threads' = IF on_song_end THEN threads + 1 ELSE threads
    /\ notified' = (on_song_end \/ notified)
    /\ callback_return
    /\ UNCHANGED <<e_stream, e_running, recorder, recorders, on_song_end,
                   output_channels, peak_level, e_call>>

\* The thread started at line 104 runs the handler and ends.
song_end_thread ==
    /\ threads > 0
    /\ threads' = threads - 1
    /\ UNCHANGED <<e_stream, e_running, recorder, recorders, on_song_end,
                   output_channels, peak_level, indata, outdata, wrote, cb_pc,
                   notified, e_call>>
    /\ EngineFrame

\* The control thread rewinds the mixer (SessionScreen.action_record and
\* action_back_to_start).
control_reset ==
    /\ reset
    /\ UNCHANGED engVars

\* The control thread starts or pauses playback.
control_set_playing(p) ==
    /\ set_playing(p)
    /\ notified' = (notified /\ ~p)
    /\ UNCHANGED <<e_stream, e_running, recorder, recorders, on_song_end,
                   output_channels, peak_level, indata, outdata, wrote, cb_pc,
                   threads, e_call>>

\* AudioEngine.__init__ with the given output_channels
EngineInit(channels) ==
    /\ e_stream = None
    /\ e_running = FALSE
    /\ recorder = Nothing
    /\ recorders = <<>>
    /\ on_song_end = FALSE
    /\ output_channels = channels
    /\ peak_level = 0
    /\ indata = <<>>
    /\ outdata = <<>>
    /\ wrote = Nothing
    /\ cb_pc = "idle"
    /\ threads = 0
    /\ notified = FALSE
    /\ e_call = EngineCall("__init__", FALSE)

\* The source lists a loaded track leaves in the mixer: none, the backing
\* file alone, or the backing file and a take.
LoadedSources ==
    { <<>>,
      <<MixSource("backing", to_stereo(FileEmpty), 1)>>,
      <<MixSource("backing", to_stereo(FileStereo), 1)>>,
      <<MixSource("backing", to_stereo(FileStereo), 1),
        MixSource("take", to_stereo(FileMono), 2)>> }

\* The engine with its real-time thread, its control thread and its song-end
\* threads, over a mixer whose track is loaded.
EngineNext ==
    \/ eng_start
    \/ eng_stop
    \/ eng_start_recording
    \/ eng_stop_recording
    \/ \E handler \in BOOLEAN : set_on_song_end(handler)
    \/ \E mono \in InputBlocks, stale \in StaleSamples :
            callback_body(mono, stale)
    \/ callback_check
    \/ callback_end
    \/ song_end_thread
    \/ control_reset
    \/ \E p \in BOOLEAN : control_set_playing(p)

\* The engine over a driver that may fail to open or to start a stream.
StreamNext ==
    \/ EngineNext
    \/ \E opened \in BOOLEAN : eng_start_raises(opened)

\* ------------------------------------------- a Session's log, replayed
\* Session.save_log() followed by parse_session_log on the file it wrote, up
\* to the loop: save_log writes nothing before start() has made the session
\* directory; the events come back from JSON as they were logged, and the
\* locals of parse_session_log are at their initial values.
save_log ==
    /\ events # <<>>
    /\ events[1].event_type = "session_start"
    /\ log = <<>>
    /\ log' = events
    /\ UNCHANGED <<ev_i, completed, current_start_frame, p_track_index,
                   p_track_name, had_restart>>
    /\ UNCHANGED <<sessVars, recVars, audioVars, restVars>>

\* A Session driven until its log is saved, and the saved log replayed.
ReplayNext ==
    \/ log = <<>> /\ SessionNext
    \/ save_log
    \/ parse_event

\* ------------------------------------------------- Mixer, thread by thread
\* The control thread inside add_source and the real-time thread inside read,
\* statement by statement. Each step is one the interpreter cannot split for
\* another Python thread: an assignment to a local, list.append, one
\* iteration of the for loop over self.sources.
RaceFrame ==
    UNCHANGED <<sessVars, spliceVars, recVars, engVars, takeVars, screenVars>>

\* add_source, line 37: read_audio returns the decoded array, or raises.
add_source_decode(name, file, volume) ==
    /\ a_pc = "idle"
    /\ Len(sources) < MaxSources
    /\ IF ~file.readable
       THEN /\ m_call' = MixerCall("add_source",
                                   <<name, file, volume, Nothing>>, TRUE)
            /\ UNCHANGED <<a_pc, a_args, a_data>>
       ELSE /\ a_pc' = "decoded"
            /\ a_args' = [name |-> name, file |-> file, volume |-> volume]
            /\ a_data' = [channels |-> file.channels, frames |-> file.frames]
            /\ UNCHANGED m_call
    /\ UNCHANGED <<sources, position, playing, m_out, readVars>>
    /\ RaceFrame

\* add_source, lines 39-42: the local data is made stereo.
add_source_stereo ==
    /\ a_pc = "decoded"
    /\ a_data' = [channels |-> 2, frames |-> to_stereo(a_data)]
    /\ a_pc' = "stereo"
    /\ UNCHANGED <<mixVars, a_args, readVars>>
    /\ RaceFrame

\* Where add_source appends (the variant appends the array as decoded).
append_ready_early == a_pc \in {"decoded", "stereo"}
append_ready == a_pc = "stereo"

\* add_source, line 43: the MixSource is built and appended, and the call
\* returns.
add_source_append ==
    /\ append_ready
    /\ sources' = Append(sources,
                         MixSource(a_args.name, a_data.frames, a_args.volume))
    /\ m_call' = MixerCall("add_source",
                           <<a_args.name, a_args.file, a_args.volume, Nothing>>,
                           FALSE)
    /\ a_pc' = "idle"
    /\ a_args' = Nothing
    /\ a_data' = Nothing
    /\ UNCHANGED <<position, playing, m_out, readVars>>
    /\ RaceFrame

\* read, lines 94-96: the block of zeros, returned at once when not playing.
read_enter(frames) ==
    /\ rd_pc = "idle"
    /\ ~playing \/ position + frames <= MaxPosition
    /\ IF ~playing
       THEN /\ m_out' = [i \in 1..frames |-> <<0, 0>>]
            /\ m_call' = MixerCall("read", <<frames>>, FALSE)
            /\ UNCHANGED readVars
       ELSE /\ rd_pc' = "loop"
            /\ rd_frames' = frames
            /\ rd_k' = 0
            /\ rd_output' = [i \in 1..frames |-> <<0, 0>>]
            /\ UNCHANGED <<m_out, m_call, rd_tmp, rd_starts>>
    /\ UNCHANGED <<sources, position, playing, a_pc, a_args, a_data>>
    /\ RaceFrame

\* read, lines 98-108: one iteration of the for loop. The list iterator takes
\* the next element while its index is below the length the list has now.
read_source ==
    /\ rd_pc = "loop"
    /\ rd_k < Len(sources)
    /\ rd_output' =
           [i \in 1..rd_frames |->
               <<rd_output[i][1]
                   + source_block(sources[rd_k + 1], position, i, 1, rd_frames),
                 rd_output[i][2]
                   + source_block(sources[rd_k + 1], position, i, 2, rd_frames)>>]
    /\ rd_k' = rd_k + 1
    /\ rd_starts' = rd_starts \cup {position}
    /\ UNCHANGED <<mixVars, rd_pc, rd_frames, rd_tmp, a_pc, a_args, a_data>>
    /\ RaceFrame

\* read, line 110, once the iterator is exhausted: self._position += frames
\* loads the cursor; the sum is stored by a later instruction.
read_load ==
    /\ rd_pc = "loop"
    /\ rd_k >= Len(sources)
    /\ rd_pc' = "advance"
    /\ rd_tmp' = position
    /\ UNCHANGED <<mixVars, rd_frames, rd_k, rd_output, rd_starts, a_pc,
                   a_args, a_data>>
    /\ RaceFrame

\* read, line 110: the cursor self._position += frames stores
read_sum == rd_tmp + rd_frames

\* read, lines 110-113: the sum is stored, the block is clipped and returned.
read_advance ==
    /\ rd_pc = "advance"
    /\ position' = read_sum
    /\ rd_tmp' = 0
    /\ rd_starts' = {}
    /\ m_out' = [i \in 1..rd_frames |->
                    <<clip(rd_output[i][1]), clip(rd_output[i][2])>>]
    /\ m_call' = MixerCall("read", <<rd_frames>>, FALSE)
    /\ rd_pc' = "idle"
    /\ rd_frames' = 0
    /\ rd_k' = 0
    /\ rd_output' = <<>>
    /\ UNCHANGED <<sources, playing, a_pc, a_args, a_data>>
    /\ RaceFrame

\* Neither thread is inside the Mixer.
RaceInit ==
    /\ a_pc = "idle"
    /\ a_args = Nothing
    /\ a_data = Nothing
    /\ rd_pc = "idle"
    /\ rd_frames = 0
    /\ rd_k = 0
    /\ rd_output = <<>>
    /\ rd_tmp = 0
    /\ rd_starts = {}

\* The two threads interleaved: the control thread loads takes and, between
\* two add_source calls, clears, rewinds, and starts and stops playback.
RaceNext ==
    \/ \E file \in AudioFiles : add_source_decode("take", file, 1)
    \/ add_source_stereo
    \/ add_source_append
    \/ a_pc = "idle" /\ clear /\ UNCHANGED engVars
    \/ a_pc = "idle" /\ reset /\ UNCHANGED engVars
    \/ \E p \in BOOLEAN : a_pc = "idle" /\ set_playing(p) /\ UNCHANGED engVars
    \/ \E frames \in 1..MaxRead : read_enter(frames)
    \/ read_source
    \/ read_load
    \/ read_advance

\* ----------------------------------------------------------- splice_takes
S_sep == <<" ", "-", " ">>
S_take == <<"t", "a", "k", "e">>
S_flac == <<".", "f", "l", "a", "c">>

\* The characters sanitize_filename removes.
UnsafeChars == {"<", ">", ":", "\"", "/", "\\", "|", "?", "*"}

\* utils.sanitize_filename
sanitize_filename(name) ==
    Strip(SelectSeq(name, LAMBDA c : c \notin UnsafeChars))

\* utils.take_filename, with the default extension
take_filename(track_name, instrument, take_number) ==
    sanitize_filename(track_name) \o S_sep \o sanitize_filename(instrument)
        \o S_sep \o S_take \o FormatNat(take_number) \o S_flac

\* Path.stem: the name without its last suffix.
path_stem(filename) ==
    LET dots == {i \in 2..Len(filename) : filename[i] = "."}
    IN  IF dots = {} THEN filename
        ELSE SubSeq(filename, 1,
                    (CHOOSE i \in dots : \A j \in dots : j <= i) - 1)

\* s.rstrip(chars)
RECURSIVE rstrip(_, _)
rstrip(s, chars) ==
    IF s # <<>> /\ s[Len(s)] \in chars
    THEN rstrip(SubSeq(s, 1, Len(s) - 1), chars)
    ELSE s

\* re.search(r"take(\d+)", stem): the digits after the leftmost "take" that a
\* digit follows, as <<int(digits)>>; <<>> when there is no match.
take_match(stem) ==
    LET starts == {i \in 1..(Len(stem) - 4) :
                      SubSeq(stem, i, i + 3) = S_take /\ IsDigit(stem[i + 4])}
    IN  IF starts = {} THEN Nothing
        ELSE LET i == CHOOSE a \in starts : \A b \in starts : a <= b
                 ends == {j \in (i + 4)..Len(stem) :
                             \A k \in (i + 4)..j : IsDigit(stem[k])}
                 last == CHOOSE a \in ends : \A b \in ends : b <= a
             IN <<ParseNat(SubSeq(stem, i + 4, last))>>

\* utils.next_take_number over the names of the files of completed_dir
next_take_number(files, track_name, instrument) ==
    LET prefix == sanitize_filename(track_name) \o S_sep
                      \o sanitize_filename(instrument) \o S_sep \o S_take
        stripped == rstrip(prefix, {"t", "a", "k", "e"})
        nums == {take_match(path_stem(f))[1] :
                    f \in {g \in files :
                              /\ StartsWith(path_stem(g), stripped)
                              /\ take_match(path_stem(g)) # Nothing}}
    IN  (IF nums = {} THEN 0
         ELSE CHOOSE a \in nums : \A b \in nums : b <= a) + 1

\* write_flac: the samples a PCM_16 file holds for a block of float samples
\* below 1.0 in magnitude (One stands for 1.0).
flac_samples(segment) ==
    [i \in DOMAIN segment |-> segment[i] * (32768 \div One)]

\* TakeInfo(instrument=..., take_number=..., filename=...)
TakeInfo(instrument, take_number, filename) ==
    [instrument |-> instrument, take_number |-> take_number,
     filename |-> filename]

\* The names of the tracks of the spliced sessions, as strings of characters.
TrackNames == << <<"i", "n", "t", "r", "o">>, <<"t", "a", "k", "e", "2">> >>

\* An event of a log whose takes are spliced.
TakeEvent(event_type, track_index, details) ==
    [event_type |-> event_type, track_index |-> track_index,
     track_name |-> TrackNames[track_index + 1], details |-> details]

\* The events the spliced logs are made of.
TakeEvents ==
    {TakeEvent("record_start", 0, frame_details(-1)),
     TakeEvent("record_start", 0, frame_details(1)),
     TakeEvent("record_start", 1, frame_details(0)),
     TakeEvent("back_to_start", 0, frame_details(1)),
     TakeEvent("song_end", 0, song_end_details(2, FALSE)),
     TakeEvent("song_end", 0, song_end_details(4, FALSE)),
     TakeEvent("song_end", 1, song_end_details(0, FALSE))}

\* The raw recordings spliced: one sample per frame.
RawRecordings == {<<1>>, <<1, -2, 0>>}

\* What a step of splice_takes leaves alone.
TakesFrame == UNCHANGED <<sessVars, recVars, audioVars, raceVars, screenVars>>

\* The test that skips a take (the variant skips none).
take_skipped_never(start_pos, end_pos) == FALSE
take_skipped(start_pos, end_pos) == end_pos <= start_pos

\* completed as parse_session_log sets it at line 43 (the variant keeps the
\* list of the previous call).
completed_at_entry_kept == completed
completed_at_entry == <<>>

\* splice_takes, lines 106-115, once parse_session_log has returned: with no
\* completed take the function returns, otherwise the recording is read.
splice_read ==
    /\ t_pc = "parse"
    /\ ev_i = Len(log)
    /\ t_pc' = IF completed = <<>> THEN "returned" ELSE "loop"
    /\ t_i' = 0
    /\ saved_paths' = <<>>
    /\ UNCHANGED <<raw_data, take_dir, preferred_takes, t_run, written,
                   written_before, spliceVars>>
    /\ TakesFrame

\* splice_takes, lines 117-141: one iteration of the loop over completed.
splice_take ==
    /\ t_pc = "loop"
    /\ t_i < Len(completed)
    /\ LET take == completed[t_i + 1]
           total_frames == Len(raw_data)
           start_pos == IF take.start_frame > 0 THEN take.start_frame ELSE 0
           end_pos == IF take.end_frame < total_frames
                      THEN take.end_frame ELSE total_frames
           segment == [i \in 1..(end_pos - start_pos) |-> raw_data[start_pos + i]]
           take_num == next_take_number(DOMAIN take_dir, take.track_name,
                                        Instrument)
           filename == take_filename(take.track_name, Instrument, take_num)
       IN /\ t_i' = t_i + 1
          /\ IF take_skipped(start_pos, end_pos)
             THEN UNCHANGED <<take_dir, saved_paths, preferred_takes, written>>
             ELSE /\ take_dir' =
                         [f \in (DOMAIN take_dir) \cup {filename} |->
                             IF f = filename THEN flac_samples(segment)
                             ELSE take_dir[f]]
                  /\ saved_paths' = Append(saved_paths, filename)
                  /\ written' =
                         Append(written,
                                [filename |-> filename,
                                 take_number |-> take_num,
                                 start_frame |-> start_pos,
                                 end_frame |-> end_pos,
                                 samples |-> flac_samples(segment)])
                  /\ preferred_takes' =
                         IF 0 <= take.track_index
                                /\ take.track_index < Len(tracks)
                         THEN [preferred_takes EXCEPT
                                  ![take.track_index + 1] =
                                      <<TakeInfo(Instrument, take_num, filename)>>]
                         ELSE preferred_takes
    /\ UNCHANGED <<raw_data, t_pc, t_run, written_before, spliceVars>>
    /\ TakesFrame

\* splice_takes, lines 143-144: the setlist is saved and the paths returned.
splice_return ==
    /\ t_pc = "loop"
    /\ t_i = Len(completed)
    /\ t_pc' = "returned"
    /\ UNCHANGED <<raw_data, take_dir, preferred_takes, t_i, t_run, saved_paths,
                   written, written_before, spliceVars>>
    /\ TakesFrame

\* splice_takes called once more over the same log and recording:
\* parse_session_log starts again at lines 43-47.
splice_call ==
    /\ t_pc = "returned"
    /\ t_run = 1
    /\ t_run' = t_run + 1
    /\ t_pc' = "parse"
    /\ t_i' = 0
    /\ saved_paths' = <<>>
    /\ written_before' = written
    /\ written' = <<>>
    /\ ev_i' = 0
    /\ completed' = completed_at_entry
    /\ current_start_frame' = Nothing
    /\ p_track_index' = 0
    /\ p_track_name' = <<>>
    /\ had_restart' = FALSE
    /\ UNCHANGED <<log, raw_data, take_dir, preferred_takes>>
    /\ TakesFrame

\* No splice_takes call has been made.
TakesInit ==
    /\ raw_data = <<>>
    /\ take_dir = <<>>
    /\ preferred_takes = <<>>
    /\ t_pc = "idle"
    /\ t_i = 0
    /\ t_run = 0
    /\ saved_paths = <<>>
    /\ written = <<>>
    /\ written_before = <<>>

TakesNext ==
    \/ parse_event
    \/ splice_read
    \/ splice_take
    \/ splice_return
    \/ splice_call

\* ------------------------------------- the engine's Recorder, by thread
\* The AudioEngine between start_recording and the end of stop_recording:
\* the real-time thread runs lines 81-82 of _callback, the control thread
\* runs Recorder.start() and then stop_recording, the drain thread runs
\* _writer_loop.

\* _callback, line 81: if self.recorder; the callback goes on to line 84
\* when there is none.
callback_if_recorder ==
    /\ w_pc = "idle"
    /\ Len(pushed) < MaxBlocks
    /\ recorder # Nothing
    /\ w_pc' = "use"
    /\ UNCHANGED <<r_file, f_open, f_data, r_buffer, r_lock, r_thread,
                   r_running, frames_written, w_data, d_pc, d_chunk, d_tmp,
                   s_pc, s_chunk, s_tmp, pushed, stops, stop_calls,
                   join_timed_out, write_after_close>>
    /\ RecorderFrame

\* _callback, line 82: self.recorder is read again and write(mono) is
\* called on it with a block of n frames; on None the attribute lookup
\* raises AttributeError and the callback is over.
callback_recorder_write(n) ==
    /\ w_pc = "use"
    /\ IF recorder = Nothing
       THEN /\ w_pc' = "idle"
            /\ e_call' = EngineCall("_callback", TRUE)
            /\ UNCHANGED <<w_data, pushed>>
       ELSE /\ w_data' = <<[id |-> Len(pushed) + 1, len |-> n]>>
            /\ pushed' = Append(pushed, [id |-> Len(pushed) + 1, len |-> n])
            /\ w_pc' = "acquire"
            /\ UNCHANGED e_call
    /\ UNCHANGED <<r_file, f_open, f_data, r_buffer, r_lock, r_thread,
                   r_running, frames_written, d_pc, d_chunk, d_tmp, s_pc,
                   s_chunk, s_tmp, stops, stop_calls, join_timed_out,
                   write_after_close>>
    /\ UNCHANGED <<e_stream, e_running, recorder, recorders, on_song_end,
                   output_channels, peak_level, indata, outdata, wrote, cb_pc,
                   threads, notified>>
    /\ UNCHANGED <<sessVars, spliceVars, mixVars, restVars>>

\* stop_recording, lines 61-62: if self.recorder: self.recorder.stop(), on
\* a Recorder that start() has returned from.
stop_recording_call ==
    /\ recorder # Nothing
    /\ r_thread # None
    /\ stop_calls = 0
    /\ stop_call

\* stop_recording, line 63: self.recorder = None, once stop() has returned.
stop_recording_set_none ==
    /\ recorder # Nothing
    /\ s_pc = "idle"
    /\ stops >= 1
    /\ recorders' = recorders_after_stop
    /\ recorder' = Nothing
    /\ e_call' = IF e_call.raised THEN e_call
                 ELSE EngineCall("stop_recording", FALSE)
    /\ UNCHANGED <<e_stream, e_running, on_song_end, output_channels,
                   peak_level, indata, outdata, wrote, cb_pc, threads, notified>>
    /\ EngineFrame

RecordingNext ==
    \/ rec_start
    \/ callback_if_recorder
    \/ \E n \in 1..MaxBlockLen : callback_recorder_write(n)
    \/ write_acquire
    \/ write_append
    \/ write_release
    \/ drain_step
    \/ stop_recording_call
    \/ stop_step
    \/ stop_recording_set_none

\* ---------------------------------------------- SessionScreen, by thread
\* The SessionScreen after on_mount: the user's key actions run on the
\* control thread, the engine's _callback on the real-time thread, and the
\* handler _on_song_finished on a thread of its own (engine.py:104). A key
\* action is one step, but for action_song_end, which is split like the
\* handler: both run Session.song_end statement by statement.
ScreenThreads == {"auto", "user"}

\* The values of the recorder's frames_written a thread of the screen reads.
ScreenFrames == {0, 400}

\* What a step of the screen leaves alone.
ScreenFrame == UNCHANGED <<tracks, spliceVars, recVars, takeVars, raceVars>>

\* No thread is inside a song end.
ScreenInit ==
    /\ se_pc = [t \in ScreenThreads |-> "idle"]
    /\ se_frame = [t \in ScreenThreads |-> 0]

\* action_record: start_recording with the recorder's frames_written, then
\* the mixer is rewound and set playing.
action_record(recording_frame) ==
    /\ se_pc["user"] = "idle"
    /\ start_recording_guard
    /\ Len(events) < MaxLog
    /\ call' = [op |-> "start_recording", from |-> state]
    /\ recording_frame_start' = start_recording_frame_start(recording_frame)
    /\ had_back_to_start' = start_recording_flag
    /\ events' = logged(events, current_track_index, "record_start",
                        frame_details(recording_frame))
    /\ state' = "PLAYING"
    /\ position' = reset_position
    /\ playing' = TRUE
    /\ m_call' = MixerCall("set_playing", <<TRUE>>, FALSE)
    /\ notified' = FALSE
    /\ UNCHANGED <<current_track_index, sources, m_out, screenVars>>
    /\ UNCHANGED <<e_stream, e_running, recorder, recorders, on_song_end,
                   output_channels, peak_level, indata, outdata, wrote, cb_pc,
                   threads, e_call>>
    /\ ScreenFrame

\* action_back_to_start: back_to_start with the recorder's frames_written,
\* then the mixer is rewound and set playing.
action_back_to_start(recording_frame) ==
    /\ se_pc["user"] = "idle"
    /\ back_to_start_guard
    /\ Len(events) < MaxLog
    /\ call' = [op |-> "back_to_start", from |-> state]
    /\ had_back_to_start' = TRUE
    /\ events' = logged(events, current_track_index, "back_to_start",
                        frame_details(recording_frame))
    /\ recording_frame_start' = recording_frame
    /\ position' = reset_position
    /\ playing' = TRUE
    /\ m_call' = MixerCall("set_playing", <<TRUE>>, FALSE)
    /\ notified' = FALSE
    /\ UNCHANGED <<state, current_track_index, sources, m_out, screenVars>>
    /\ UNCHANGED <<e_stream, e_running, recorder, recorders, on_song_end,
                   output_channels, peak_level, indata, outdata, wrote, cb_pc,
                   threads, e_call>>
    /\ ScreenFrame

\* A step of a thread inside a song end that touches neither the Session
\* nor the mixer nor the engine.
song_end_local ==
    /\ UNCHANGED <<sessVars, audioVars>>
    /\ ScreenFrame

\* action_song_end, lines 209-211: the user's thread finds the Session
\* PLAYING and reads the recorder's frames_written.
action_song_end_enter(recording_frame) ==
    /\ se_pc["user"] = "idle"
    /\ state = "PLAYING"
    /\ se_pc' = [se_pc EXCEPT !["user"] = "call"]
    /\ se_frame' = [se_frame EXCEPT !["user"] = recording_frame]
    /\ song_end_local

\* _on_song_finished, lines 135-136, on the thread the callback started:
\* the handler returns unless the Session is PLAYING, and reads the
\* recorder's frames_written.
on_song_finished_enter(recording_frame) ==
    /\ threads > 0
    /\ se_pc["auto"] = "idle"
    /\ threads' = threads - 1
    /\ IF state = "PLAYING"
       THEN /\ se_pc' = [se_pc EXCEPT !["auto"] = "call"]
            /\ se_frame' = [se_frame EXCEPT !["auto"] = recording_frame]
       ELSE UNCHANGED screenVars
    /\ UNCHANGED <<e_stream, e_running, recorder, recorders, on_song_end,
                   output_channels, peak_level, indata, outdata, wrote, cb_pc,
                   notified, e_call>>
    /\ UNCHANGED <<sessVars, mixVars>>
    /\ ScreenFrame

\* Where a thread goes when Session.song_end returns: the user's thread to
\* line 213, the handler's thread to its end.
after_song_end(t) == IF t = "user" THEN "pause" ELSE "idle"

\* Session.song_end, line 141, on thread t
song_end_check(t) ==
    /\ se_pc[t] = "call"
    /\ se_pc' = [se_pc EXCEPT ![t] = IF song_end_guard THEN "log"
                                     ELSE after_song_end(t)]
    /\ UNCHANGED se_frame
    /\ song_end_local

\* Session.song_end, line 143, on thread t
song_end_log(t) ==
    /\ se_pc[t] = "log"
    /\ Len(events) < MaxLog
    /\ events' = logged(events, current_track_index, "song_end",
                        song_end_details(se_frame[t], had_back_to_start))
    /\ call' = [op |-> "song_end", from |-> state]
    /\ se_pc' = [se_pc EXCEPT ![t] = "set"]
    /\ UNCHANGED <<state, current_track_index, recording_frame_start,
                   had_back_to_start, se_frame, audioVars>>
    /\ ScreenFrame

\* Session.song_end, line 144, on thread t
song_end_set_state(t) ==
    /\ se_pc[t] = "set"
    /\ state' = "BETWEEN_TRACKS"
    /\ se_pc' = [se_pc EXCEPT ![t] = after_song_end(t)]
    /\ UNCHANGED <<current_track_index, events, recording_frame_start,
                   had_back_to_start, call, se_frame, audioVars>>
    /\ ScreenFrame

\* action_song_end, line 213: the user's thread pauses the mixer.
action_song_end_pause ==
    /\ se_pc["user"] = "pause"
    /\ playing' = FALSE
    /\ m_call' = MixerCall("set_playing", <<FALSE>>, FALSE)
    /\ se_pc' = [se_pc EXCEPT !["user"] = "idle"]
    /\ UNCHANGED <<sources, position, m_out, engVars, sessVars, se_frame>>
    /\ ScreenFrame

ScreenNext ==
    \/ \E f \in ScreenFrames : action_record(f)
    \/ \E f \in ScreenFrames : action_back_to_start(f)
    \/ \E f \in ScreenFrames : action_song_end_enter(f)
    \/ \E f \in ScreenFrames : on_song_finished_enter(f)
    \/ \E t \in ScreenThreads : song_end_check(t)
    \/ \E t \in ScreenThreads : song_end_log(t)
    \/ \E t \in ScreenThreads : song_end_set_state(t)
    \/ action_song_end_pause
    \/ \E mono \in InputBlocks, stale \in StaleSamples :
            callback_body(mono, stale)
    \/ callback_check
    \/ callback_end

\* The components a specification does not use.
RestInit == TakesInit /\ RaceInit /\ ScreenInit

\* ---------------------------------------------------------- specifications
\* A Session over an unused splicer and recorder.
SessionSpecInit ==
    /\ SessionInit
    /\ log = <<>> /\ ev_i = 0 /\ completed = <<>> /\ current_start_frame = Nothing
    /\ p_track_index = 0 /\ p_track_name = "" /\ had_restart = FALSE
    /\ RecorderInit
    /\ MixerInit
    /\ EngineInit(2)
    /\ RestInit

\* parse_session_log over an unused session and recorder.
SpliceSpecInit ==
    /\ SpliceInit
    /\ state = "IDLE" /\ current_track_index = 0 /\ events = <<>>
    /\ recording_frame_start = 0 /\ had_back_to_start = FALSE
    /\ tracks = <<>> /\ call = [op |-> "__init__", from |-> "IDLE"]
    /\ RecorderInit
    /\ MixerInit
    /\ EngineInit(2)
    /\ RestInit

\* A Recorder over an unused session and splicer.
RecorderSpecInit ==
    /\ RecorderInit
    /\ state = "IDLE" /\ current_track_index = 0 /\ events = <<>>
    /\ recording_frame_start = 0 /\ had_back_to_start = FALSE
    /\ tracks = <<>> /\ call = [op |-> "__init__", from |-> "IDLE"]
    /\ log = <<>> /\ ev_i = 0 /\ completed = <<>> /\ current_start_frame = Nothing
    /\ p_track_index = 0 /\ p_track_name = "" /\ had_restart = FALSE
    /\ MixerInit
    /\ EngineInit(2)
    /\ RestInit

\* A Mixer over an unused session, splicer and recorder.
MixerSpecInit ==
    /\ MixerInit
    /\ state = "IDLE" /\ current_track_index = 0 /\ events = <<>>
    /\ recording_frame_start = 0 /\ had_back_to_start = FALSE
    /\ tracks = <<>> /\ call = [op |-> "__init__", from |-> "IDLE"]
    /\ log = <<>> /\ ev_i = 0 /\ completed = <<>> /\ current_start_frame = Nothing
    /\ p_track_index = 0 /\ p_track_name = "" /\ had_restart = FALSE
    /\ RecorderInit
    /\ EngineInit(2)
    /\ RestInit

\* An AudioEngine of one of the given channel counts whose mixer holds one of
\* the given source lists, over an unused session, splicer and recorder.
EngineLoadedInit(counts, lists) ==
    /\ \E channels \in counts : EngineInit(channels)
    /\ sources \in lists
    /\ position = 0
    /\ playing = FALSE
    /\ m_out = <<>>
    /\ m_call = MixerCall("__init__", <<>>, FALSE)
    /\ state = "IDLE" /\ current_track_index = 0 /\ events = <<>>
    /\ recording_frame_start = 0 /\ had_back_to_start = FALSE
    /\ tracks = <<>> /\ call = [op |-> "__init__", from |-> "IDLE"]
    /\ log = <<>> /\ ev_i = 0 /\ completed = <<>> /\ current_start_frame = Nothing
    /\ p_track_index = 0 /\ p_track_name = "" /\ had_restart = FALSE
    /\ RecorderInit
    /\ RestInit

\* An AudioEngine of any channel count whose mixer holds a loaded track.
EngineSpecInit == EngineLoadedInit(ChannelCounts, LoadedSources)

\* A stereo AudioEngine whose mixer holds the backing file.
CancelSpecInit ==
    EngineLoadedInit({2}, {<<MixSource("backing", to_stereo(FileStereo), 1)>>})

\* The two threads of a Mixer, over an unused session, splicer, recorder and
\* engine.
RaceSpecInit ==
    /\ MixerInit
    /\ RaceInit
    /\ TakesInit
    /\ ScreenInit
    /\ state = "IDLE" /\ current_track_index = 0 /\ events = <<>>
    /\ recording_frame_start = 0 /\ had_back_to_start = FALSE
    /\ tracks = <<>> /\ call = [op |-> "__init__", from |-> "IDLE"]
    /\ log = <<>> /\ ev_i = 0 /\ completed = <<>> /\ current_start_frame = Nothing
    /\ p_track_index = 0 /\ p_track_name = "" /\ had_restart = FALSE
    /\ RecorderInit
    /\ EngineInit(2)

\* splice_takes called on a project with an empty completed_takes directory
\* and a setlist of one track, over any log of at most MaxEvents events and
\* one of the raw recordings.
TakesSpecInit ==
    /\ log \in UNION {[1..n -> TakeEvents] : n \in 0..MaxEvents}
    /\ ev_i = 0
    /\ completed = <<>>
    /\ current_start_frame = Nothing
    /\ p_track_index = 0
    /\ p_track_name = <<>>
    /\ had_restart = FALSE
    /\ raw_data \in RawRecordings
    /\ take_dir = <<>>
    /\ preferred_takes = <<Nothing>>
    /\ t_pc = "parse"
    /\ t_i = 0
    /\ t_run = 1
    /\ saved_paths = <<>>
    /\ written = <<>>
    /\ written_before = <<>>
    /\ state = "IDLE" /\ current_track_index = 0 /\ events = <<>>
    /\ recording_frame_start = 0 /\ had_back_to_start = FALSE
    /\ tracks = <<TrackNames[1]>> /\ call = [op |-> "__init__", from |-> "IDLE"]
    /\ RecorderInit
    /\ MixerInit
    /\ EngineInit(2)
    /\ RaceInit
    /\ ScreenInit

\* AudioEngine.start_recording after line 56: self.recorder refers to a new
\* Recorder that is not started yet.
RecordingSpecInit ==
    /\ RecorderInit
    /\ e_stream = "stream"
    /\ e_running = TRUE
    /\ recorder = <<1>>
    /\ recorders = <<"active">>
    /\ on_song_end = FALSE
    /\ output_channels = 2
    /\ peak_level = 0
    /\ indata = <<>>
    /\ outdata = <<>>
    /\ wrote = Nothing
    /\ cb_pc = "idle"
    /\ threads = 0
    /\ notified = FALSE
    /\ e_call = EngineCall("start_recording", FALSE)
    /\ MixerInit
    /\ state = "IDLE" /\ current_track_index = 0 /\ events = <<>>
    /\ recording_frame_start = 0 /\ had_back_to_start = FALSE
    /\ tracks = <<>> /\ call = [op |-> "__init__", from |-> "IDLE"]
    /\ log = <<>> /\ ev_i = 0 /\ completed = <<>> /\ current_start_frame = Nothing
    /\ p_track_index = 0 /\ p_track_name = "" /\ had_restart = FALSE
    /\ RestInit

\* The SessionScreen when on_mount returns (tui/screens/session.py:54-100):
\* the Session is started over a setlist of one track, the handler is set,
\* the engine runs with a recorder, and the track's backing file is loaded
\* into the paused mixer.
ScreenSpecInit ==
    /\ tracks = SubSeq(NamePool, 1, 1)
    /\ state = "WAITING"
    /\ current_track_index = 0
    /\ events = logged(<<>>, 0, "session_start", S_instrument \o Instrument)
    /\ recording_frame_start = 0
    /\ had_back_to_start = FALSE
    /\ call = [op |-> "start", from |-> "IDLE"]
    /\ e_stream = "stream"
    /\ e_running = TRUE
    /\ recorder = <<1>>
    /\ recorders = <<"active">>
    /\ on_song_end = TRUE
    /\ output_channels = 2
    /\ peak_level = 0
    /\ indata = <<>>
    /\ outdata = <<>>
    /\ wrote = Nothing
    /\ cb_pc = "idle"
    /\ threads = 0
    /\ notified = FALSE
    /\ e_call = EngineCall("start_recording", FALSE)
    /\ sources = <<MixSource("backing", to_stereo(FileStereo), 1)>>
    /\ position = 0
    /\ playing = FALSE
    /\ m_out = <<>>
    /\ m_call = MixerCall("add_source", <<>>, FALSE)
    /\ log = <<>> /\ ev_i = 0 /\ completed = <<>> /\ current_start_frame = Nothing
    /\ p_track_index = 0 /\ p_track_name = "" /\ had_restart = FALSE
    /\ RecorderInit
    /\ RestInit

SpecSession == SessionSpecInit /\ [][SessionNext]_vars
SpecSplicer == SpliceSpecInit /\ [][SpliceNext]_vars
SpecRecorder == RecorderSpecInit /\ [][RecorderNext]_vars
SpecMixer == MixerSpecInit /\ [][MixerNext]_vars
SpecEngine == EngineSpecInit /\ [][EngineNext]_vars
SpecRace == RaceSpecInit /\ [][RaceNext]_vars
SpecTakes == TakesSpecInit /\ [][TakesNext]_vars
SpecReplay == SessionSpecInit /\ [][ReplayNext]_vars
SpecScreen == ScreenSpecInit /\ [][ScreenNext]_vars
SpecRecording == RecordingSpecInit /\ [][RecordingNext]_vars
SpecStream == CancelSpecInit /\ [][StreamNext]_vars

\* The Recorder with every thread scheduled fairly: a write() that was
\* entered goes on, the drain thread goes on (its wait of 10 ms included),
\* and a stop() that was called goes on (its join returns after 5 s at
\* most). A thread that finds the lock free again and again takes it in the
\* end, hence the strong fairness of the two threads that use the lock.
write_step == write_acquire \/ write_append \/ write_release
SpecRecorderFair ==
    /\ RecorderSpecInit
    /\ [][RecorderNext]_vars
    /\ SF_vars(write_step)
    /\ SF_vars(drain_step)
    /\ WF_vars(stop_step)

\* A Recorder and an AudioEngine side by side. The two objects share no
\* state, so each is run from the initial state of the other: a behaviour
\* exercises the Recorder alone (its three threads) or the engine alone.
EngineUntouched == e_call.op = "__init__" /\ m_call.op = "__init__"
RecorderUntouched == r_thread = None /\ stop_calls = 0
CancelNext ==
    \/ EngineUntouched /\ RecorderNext
    \/ RecorderUntouched /\ EngineNext
SpecCancel == CancelSpecInit /\ [][CancelNext]_vars


\* ------------------------------------------------------------------ claims
\* The Session fields a refused transition must leave alone.
SessionCore == <<state, current_track_index, events, recording_frame_start,
                 had_back_to_start>>

\* C1: a guarded Session transition invoked in a state other than its guard
\* state (start outside IDLE, start_recording outside WAITING, back_to_start
\* or song_end outside PLAYING, next_track outside BETWEEN_TRACKS) changes
\* none of state, current_track_index, the event log, the tracked start frame
\* and the had-restart flag.
C1_WrongStateIsNoOp ==
    [][(\/ call'.op = "start" /\ state # "IDLE"
        \/ call'.op = "start_recording" /\ state # "WAITING"
        \/ call'.op = "back_to_start" /\ state # "PLAYING"
        \/ call'.op = "song_end" /\ state # "PLAYING"
        \/ call'.op = "next_track" /\ state # "BETWEEN_TRACKS")
       => UNCHANGED SessionCore]_vars

\* A refused song_end (between tracks) after a take has been logged.
C1_Witness ==
    /\ call.op = "song_end"
    /\ call.from = "BETWEEN_TRACKS"
    /\ state = "BETWEEN_TRACKS"
    /\ Len(events) >= 3

\* C2: every change of Session.state is one of the edges IDLE->WAITING by
\* start, WAITING->PLAYING by start_recording, PLAYING->BETWEEN_TRACKS by
\* song_end, BETWEEN_TRACKS->WAITING by next_track with a track remaining,
\* BETWEEN_TRACKS->ENDED by next_track past the last track, and any
\* state->ENDED by end_session (back_to_start keeps PLAYING).
C2_AllowedEdges ==
    [][state' # state =>
        \/ state = "IDLE" /\ state' = "WAITING" /\ call'.op = "start"
        \/ state = "WAITING" /\ state' = "PLAYING"
               /\ call'.op = "start_recording"
        \/ state = "PLAYING" /\ state' = "BETWEEN_TRACKS"
               /\ call'.op = "song_end"
        \/ state = "BETWEEN_TRACKS" /\ state' = "WAITING"
               /\ call'.op = "next_track"
               /\ current_track_index + 1 < Len(tracks)
        \/ state = "BETWEEN_TRACKS" /\ state' = "ENDED"
               /\ call'.op = "next_track"
               /\ current_track_index + 1 >= Len(tracks)
        \/ state' = "ENDED" /\ call'.op = "end_session"]_vars

\* A second track has been reached through next_track.
C2_Witness ==
    /\ state = "WAITING"
    /\ call.op = "next_track"
    /\ current_track_index = 1

\* C3: once the Session is in ENDED, no operation puts it in another state.
C3_EndedIsTerminal == [][state = "ENDED" => state' = "ENDED"]_vars

\* An operation has been invoked on an ended Session with tracks left.
C3_Witness ==
    /\ state = "ENDED"
    /\ call.from = "ENDED"
    /\ call.op \in {"start", "next_track"}
    /\ current_track_index + 1 < Len(tracks)

\* C4 as stated: in WAITING every operation other than start_recording leaves
\* the state unchanged, and song_end leaves state and event log unchanged.
C4_Original ==
    [][state = "WAITING" /\ call'.op # "start_recording"
       => /\ state' = state
          /\ call'.op = "song_end" => events' = events]_vars

\* C4 as amended: in WAITING, start_recording moves to PLAYING and
\* end_session moves to ENDED; every other operation (start, back_to_start,
\* song_end, next_track) leaves the state unchanged, and song_end leaves both
\* the state and the event log unchanged.
C4_WaitingAccepts ==
    [][state = "WAITING" =>
        /\ call'.op = "start_recording" => state' = "PLAYING"
        /\ call'.op = "end_session" => state' = "ENDED"
        /\ call'.op \notin {"start_recording", "end_session"}
               => state' = state
        /\ call'.op = "song_end" => events' = events]_vars

\* song_end has been refused in WAITING.
C4_Witness ==
    /\ call.op = "song_end"
    /\ call.from = "WAITING"
    /\ state = "WAITING"

\* C5: next_track in BETWEEN_TRACKS with no later track moves to ENDED and
\* appends no next_track event; with a later track it increments
\* current_track_index by one, appends exactly one event, a next_track, and
\* moves to WAITING.
C5_NextTrack ==
    [][call'.op = "next_track" /\ state = "BETWEEN_TRACKS" =>
        IF current_track_index + 1 < Len(tracks)
        THEN /\ current_track_index' = current_track_index + 1
             /\ Len(events') = Len(events) + 1
             /\ SubSeq(events', 1, Len(events)) = events
             /\ events'[Len(events')].event_type = "next_track"
             /\ state' = "WAITING"
        ELSE /\ state' = "ENDED"
             /\ SubSeq(events', 1, Len(events)) = events
             /\ \A i \in (Len(events) + 1)..Len(events') :
                    events'[i].event_type # "next_track"]_vars

\* next_track has ended the session from the last track of a setlist.
C5_Witness ==
    /\ call.op = "next_track"
    /\ call.from = "BETWEEN_TRACKS"
    /\ state = "ENDED"
    /\ Len(tracks) >= 1
    /\ current_track_index = Len(tracks)

\* The had_restart value a song_end event carries in its details.
EmbeddedHadRestart(details) == Split(Strip(Split(details, ",")[2]), "=")[2]

\* The position of the last record_start before position j of the log.
LastRecordStart(evs, j) ==
    CHOOSE r \in 1..(j - 1) :
        /\ evs[r].event_type = "record_start"
        /\ \A k \in (r + 1)..(j - 1) : evs[k].event_type # "record_start"

\* Whether a back_to_start was logged since the last record_start before j.
RestartedSince(evs, j) ==
    \E k \in (LastRecordStart(evs, j) + 1)..(j - 1) :
        evs[k].event_type = "back_to_start"

\* C6: every song_end event follows a record_start and embeds had_restart =
\* True exactly when a back_to_start was logged since the most recent
\* record_start; while PLAYING the flag itself says the same.
C6_HadRestart ==
    /\ \A j \in 1..Len(events) :
           events[j].event_type = "song_end" =>
               /\ \E r \in 1..(j - 1) : events[r].event_type = "record_start"
               /\ EmbeddedHadRestart(events[j].details)
                      = FormatBool(RestartedSince(events, j))
    /\ state = "PLAYING" =>
           had_back_to_start = RestartedSince(events, Len(events) + 1)

\* A take with a restart is followed by a take without one, and both ended.
C6_Witness ==
    \E i, j \in 1..Len(events) :
        /\ i < j
        /\ events[i].event_type = "song_end"
        /\ events[j].event_type = "song_end"
        /\ EmbeddedHadRestart(events[i].details) = S_True
        /\ EmbeddedHadRestart(events[j].details) = S_False


\* Whether the song_end at position j of the log closes a clean take: a
\* record_start precedes it with no song_end and no back_to_start in between.
ClosesCleanTake(j) ==
    \E r \in 1..(j - 1) :
        /\ log[r].event_type = "record_start"
        /\ \A k \in (r + 1)..(j - 1) :
               log[k].event_type \notin {"song_end", "back_to_start"}

\* The frame an event of the replayed log carries: every event of
\* SpliceEvents is either without details or was made with one of these.
FrameOf(event) ==
    IF event.details = <<>> THEN 0
    ELSE CHOOSE f \in Frames :
             \/ event.details = frame_details(f)
             \/ \E b \in BOOLEAN : event.details = song_end_details(f, b)

\* The takes due after the first n events: one per song_end that closes a
\* clean take, from the frame, track index and name of the nearest
\* record_start before it to the frame of the song_end, in log order.
RECURSIVE TakesDue(_)
TakesDue(n) ==
    IF n = 0 THEN <<>>
    ELSE IF log[n].event_type = "song_end" /\ ClosesCleanTake(n)
         THEN LET r == LastRecordStart(log, n)
              IN Append(TakesDue(n - 1),
                        [track_index |-> log[r].track_index,
                         track_name |-> log[r].track_name,
                         start_frame |-> FrameOf(log[r]),
                         end_frame |-> FrameOf(log[n])])
         ELSE TakesDue(n - 1)

\* C7: after any number of events replayed, the takes emitted are exactly,
\* in order, one per song_end preceded by a record_start with neither a
\* song_end nor a back_to_start in between, spanning [frame of that
\* record_start, frame of the song_end) with the record_start's track index
\* and name (so a record_start with no song_end after it emits nothing); and
\* right after a song_end the pending start frame and the restart flag are
\* clear, whether or not it emitted a take.
C7_TakesEmitted ==
    /\ completed = TakesDue(ev_i)
    /\ (ev_i > 0 /\ log[ev_i].event_type = "song_end")
           => current_start_frame = Nothing /\ ~had_restart

\* A restarted take was abandoned by a new record_start whose song_end
\* emitted the one take, and a further song_end emitted nothing.
C7_Witness ==
    /\ Len(log) = 4
    /\ ev_i = 4
    /\ log[1].event_type = "record_start"
    /\ log[2].event_type = "back_to_start"
    /\ log[3].event_type = "record_start"
    /\ log[4].event_type = "song_end"
    /\ log[1].details # log[3].details
    /\ Len(completed) = 1

\* The log record_start(frame=0), back_to_start(frame=400),
\* song_end(frame=1200).
RestartScenario ==
    /\ Len(log) = 3
    /\ log[1].event_type = "record_start"
    /\ log[1].details = frame_details(0)
    /\ log[2].event_type = "back_to_start"
    /\ log[2].details = frame_details(400)
    /\ log[3].event_type = "song_end"
    /\ \E b \in BOOLEAN : log[3].details = song_end_details(1200, b)

\* C8 as stated: replaying record_start(frame=0), back_to_start(frame=400),
\* song_end(frame=1200) yields exactly one CompletedTake, [400, 1200).
C8_Original ==
    (RestartScenario /\ ev_i = 3) =>
        /\ Len(completed) = 1
        /\ completed[1].start_frame = 400
        /\ completed[1].end_frame = 1200

\* C8 as amended: replaying record_start(frame=0), back_to_start(frame=400),
\* song_end(frame=1200) yields no CompletedTake: the restart moves the
\* pending start frame to 400 and marks the take restarted, and the song_end
\* of a restarted take discards it.
C8_RestartScenario ==
    /\ (RestartScenario /\ ev_i = 2)
           => current_start_frame = <<400>> /\ had_restart
    /\ (RestartScenario /\ ev_i = 3)
           => completed = <<>> /\ current_start_frame = Nothing

\* The scenario has been replayed to its end.
C8_Witness == RestartScenario /\ ev_i = 3


\* The total length, in frames, of a sequence of blocks.
RECURSIVE TotalFrames(_)
TotalFrames(blocks) ==
    IF blocks = <<>> THEN 0
    ELSE Head(blocks).len + TotalFrames(Tail(blocks))

\* A stop() called after start() has returned.
StopReturned ==
    /\ s_pc = "idle"
    /\ stops >= 1
    /\ r_thread # None
    /\ ~r_running

\* C9: when a stop() called after start() has returned, the frames written
\* to the file total the frames of the blocks pushed before it was called,
\* and no block is in the file twice.
C9_NoLossNoDuplication ==
    StopReturned =>
        /\ TotalFrames(f_data) = TotalFrames(pushed)
        /\ \A i, j \in 1..Len(f_data) : f_data[i] = f_data[j] => i = j

\* C10: when a stop() called after start() has returned, the drain thread is
\* over or its join has timed out, the queue is empty, the file is closed and
\* every pushed block is in the file; and no write is ever issued to a closed
\* file.
C10_StopFlushesAndCloses ==
    /\ StopReturned =>
           /\ d_pc \in {"done", "crashed"} \/ join_timed_out
           /\ r_buffer = <<>>
           /\ ~f_open /\ r_file = None
           /\ \A k \in 1..Len(pushed) :
                  \E i \in 1..Len(f_data) : f_data[i] = pushed[k]
    /\ ~write_after_close


\* C11: a step of write() touches neither the file nor frames_written, and
\* the drain thread holds the lock only around its test of the queue and its
\* pop, never while it calls or is inside file.write: a write() that waits
\* for the lock waits for a queue operation only.
DrainInFileWrite == d_pc \in {"write_call", "in_write"}
C11_WriteNeverWaitsOnFileIO ==
    [][/\ w_pc' # w_pc =>
            UNCHANGED <<r_file, f_open, f_data, frames_written,
                        write_after_close>>
       /\ DrainInFileWrite' => r_lock' # "drain"
       /\ r_lock' = "drain" => d_pc' \in {"if_buffer", "popleft", "release"}]_vars

\* write() appends under the lock while the drain thread is inside file.write
C11_Witness == d_pc = "in_write" /\ w_pc = "append" /\ r_lock = "rt"

\* C16: a read(n) while playing returns a block of exactly n frames, each of
\* two samples, each sample within -1.0 .. 1.0, whatever the sources, their
\* volumes and the cursor.
SampleInRange(x) == -One <= x /\ x <= One
C16_ReadReturnsClippedBlock ==
    [][m_call'.op = "read" /\ playing =>
         /\ Len(m_out') = m_call'.args[1]
         /\ \A i \in 1..Len(m_out') :
               /\ Len(m_out'[i]) = 2
               /\ SampleInRange(m_out'[i][1])
               /\ SampleInRange(m_out'[i][2])]_vars

\* a read whose sum of sources left -1.0 .. 1.0 before the clip
C16_Witness ==
    /\ m_call.op = "read" /\ playing
    /\ \E i \in 1..Len(m_out), ch \in 1..2 :
          ~SampleInRange(mix(Len(sources), position - m_call.args[1], i, ch,
                             m_call.args[1]))

\* C17 as stated: is_finished is false after reset(), true once the reads
\* have taken the cursor of a loaded mixer to duration_frames, and once true
\* it stays true under every operation but reset().
C17_Original ==
    [][/\ m_call'.op = "reset" => ~is_finished'
       /\ (m_call'.op = "read" /\ playing /\ sources # <<>>
             /\ position' >= duration_frames) => is_finished'
       /\ (is_finished /\ m_call'.op # "reset") => is_finished']_vars

\* C17, amended: is_finished is false after reset(); it is true once the
\* reads have taken the cursor to duration_frames provided duration_frames is
\* positive; once true it stays true under read, set_playing and set_volume;
\* clear(), a seek below duration_frames and an add_source of a longer
\* source make it false again, as reset() does.
C17_FinishedUntilRewound ==
    [][/\ m_call'.op = "reset" => ~is_finished'
       /\ (m_call'.op = "read" /\ playing /\ duration_frames > 0
             /\ position' >= duration_frames) => is_finished'
       /\ (is_finished /\ m_call'.op \in {"read", "set_playing", "set_volume"})
             => is_finished'
       /\ m_call'.op = "clear" => ~is_finished'
       /\ (m_call'.op = "seek" /\ m_call'.args[1] < duration_frames)
             => ~is_finished'
       /\ (m_call'.op = "add_source" /\ ~m_call'.raised
             /\ Len(to_stereo(m_call'.args[2])) > position) => ~is_finished'
      ]_vars

\* a read that takes the cursor from before the end of the longest source to
\* its end or past it
C17_Witness ==
    /\ m_call.op = "read" /\ playing /\ is_finished
    /\ position - m_call.args[1] < duration_frames

\* C18: add_source called with trim_frames = k loads the source without its
\* first k frames (so every later read returns what it returns for that
\* shortened source).
Drop(data, k) == SubSeq(data, k + 1, Len(data))
C18_TrimDiscardsLeadingFrames ==
    [][(m_call'.op = "add_source" /\ m_call'.args[4] # Nothing) =>
         sources' = Append(sources,
                           MixSource(m_call'.args[1],
                                     Drop(to_stereo(m_call'.args[2]),
                                          m_call'.args[4][1]),
                                     m_call'.args[3]))]_vars

\* C19: read(n) while playing moves the cursor by n, also at or past the end
\* of every source; read(n) while not playing returns n frames of silence and
\* leaves the cursor where it was.
C19_ReadAdvancesCursor ==
    [][m_call'.op = "read" =>
         IF playing
         THEN position' = position + m_call'.args[1]
         ELSE /\ position' = position
              /\ m_out' = [i \in 1..m_call'.args[1] |-> <<0, 0>>]]_vars

\* a read of one frame or more that began at or past the end of every source
C19_Witness ==
    /\ m_call.op = "read" /\ playing /\ sources # <<>>
    /\ m_call.args[1] > 0
    /\ position - m_call.args[1] >= duration_frames
    /\ m_out = [i \in 1..m_call.args[1] |-> <<0, 0>>]

\* C20: duration_frames is defined and is the length of the longest active
\* source (0 for no source); is_finished is false with no source, and with
\* sources it is true exactly when the cursor is at or past duration_frames.
C20_DurationAndFinished ==
    /\ ~duration_frames_raises
    /\ \A i \in DOMAIN sources :
          sources[i].active => Len(sources[i].data) <= duration_frames
    /\ sources # <<>> =>
          \E i \in DOMAIN sources :
             sources[i].active /\ Len(sources[i].data) = duration_frames
    /\ sources = <<>> => ~is_finished
    /\ sources # <<>> => (is_finished <=> position >= duration_frames)

\* What cancellation acts on: the engine's stream and recorders, and a
\* Recorder's file, counters and queue.
EngineCore == <<e_stream, e_running, recorder, recorders>>
RecorderCore == <<r_file, f_open, f_data, frames_written, r_running, r_buffer,
                  r_thread>>
\* A step of Recorder.stop(), its call included.
StopStep == s_pc' # s_pc \/ stop_calls' # stop_calls

\* C12 as stated: AudioEngine.stop() with no stream open,
\* AudioEngine.stop_recording() with no recorder, and Recorder.stop() on a
\* Recorder that was never started or whose stop() has returned, change
\* nothing of the stream, the recorders, the file and frames_written, and
\* raise nothing.
C12_Original ==
    [][/\ (e_call'.op = "stop" /\ e_stream = None) =>
             UNCHANGED EngineCore /\ ~e_call'.raised
       /\ (e_call'.op = "stop_recording" /\ recorder = Nothing) =>
             UNCHANGED EngineCore /\ ~e_call'.raised
       /\ (StopStep /\ r_file = None) =>
             UNCHANGED RecorderCore /\ s_pc' # "raised"]_vars

\* C12, amended: the same, AudioEngine.stop() being a no-op when no stream
\* is open and no recorder is active.
C12_CancelIsIdempotent ==
    [][/\ (e_call'.op = "stop" /\ e_stream = None /\ recorder = Nothing) =>
             UNCHANGED EngineCore /\ ~e_call'.raised
       /\ (e_call'.op = "stop_recording" /\ recorder = Nothing) =>
             UNCHANGED EngineCore /\ ~e_call'.raised
       /\ (StopStep /\ r_file = None) =>
             UNCHANGED RecorderCore /\ s_pc' # "raised"]_vars

\* a second stop() has returned on a Recorder that recorded
C12_Witness ==
    stop_calls = 2 /\ stops = 2 /\ r_thread # None /\ f_data # <<>>

\* C13: at most one Recorder made by the engine is active (file open, drain
\* thread alive) at any time.
C13_AtMostOneActiveRecorder ==
    Cardinality({i \in DOMAIN recorders : recorders[i] = "active"}) <= 1

\* C14: the callback goes on to its song-end branch exactly when the mixer is
\* playing and finished; that branch stops the mixer and, with a handler set,
\* starts one thread for it, which no callback step runs; it is never taken
\* twice without set_playing(True) in between; no other callback step starts
\* a thread.
C14_SongEndDispatchedOnce ==
    [][/\ (cb_pc = "check" /\ cb_pc' # cb_pc) =>
             (cb_pc' = "end" <=> (playing /\ is_finished))
       /\ (cb_pc = "end" /\ cb_pc' # cb_pc) =>
             /\ ~playing'
             /\ threads' = threads + (IF on_song_end THEN 1 ELSE 0)
             /\ ~notified
       /\ (cb_pc' # cb_pc /\ cb_pc # "end") => threads' = threads]_vars

\* the callback has just started a song-end thread, which has not run yet,
\* and left the mixer stopped at the end of the track
C14_Witness ==
    /\ cb_pc = "idle" /\ m_call = MixerCall("set_playing", <<FALSE>>, FALSE)
    /\ threads > 0 /\ notified /\ ~playing /\ is_finished

\* C15: when the callback has filled its output block, every channel of
\* every frame holds the mix plus the input, clipped (the left mix channel for
\* channel 0, the right one for channel 1, either for a further channel).
C15_EveryChannelMixPlusMonitor ==
    cb_pc \in {"check", "end"} =>
        \A i \in DOMAIN outdata : \A ch \in 1..output_channels :
            \E c \in 1..2 :
                /\ ch <= 2 => c = ch
                /\ outdata[i][ch] = clip(m_out[i][c] + indata[i])


\* C21: clear() empties the source list and puts the cursor at 0; reset()
\* puts the cursor at 0 and leaves the source list (every source's samples,
\* volume and active flag) as it was; neither changes the playing flag.
C21_ClearAndReset ==
    [][/\ m_call'.op = "clear"
           => sources' = <<>> /\ position' = 0 /\ playing' = playing
       /\ m_call'.op = "reset"
           => sources' = sources /\ position' = 0 /\ playing' = playing]_vars

\* reset() has rewound a playing mixer that holds two sources.
C21_Witness ==
    /\ m_call.op = "reset"
    /\ Len(sources) = 2
    /\ playing
    /\ position = 0

\* C22: set_volume(name, v) gives the volume v to the first source of that
\* name and changes nothing else: every other source's volume, every
\* source's name, samples and active flag, the number of sources, the cursor
\* and the playing flag stay, and with no source of that name nothing changes.
C22_SetVolumeTouchesOneSource ==
    [][m_call'.op = "set_volume" =>
        LET name == m_call'.args[1]
            v == m_call'.args[2]
            IsTarget(i) == /\ sources[i].name = name
                           /\ \A j \in 1..(i - 1) : sources[j].name # name
        IN /\ position' = position
           /\ playing' = playing
           /\ Len(sources') = Len(sources)
           /\ \A i \in DOMAIN sources :
                  /\ sources'[i].name = sources[i].name
                  /\ sources'[i].data = sources[i].data
                  /\ sources'[i].active = sources[i].active
                  /\ sources'[i].volume =
                         IF IsTarget(i) THEN v ELSE sources[i].volume
           /\ (\A i \in DOMAIN sources : sources[i].name # name)
                  => sources' = sources]_vars

\* set_volume has changed the second of two sources of different names and
\* volumes.
C22_Witness ==
    /\ m_call.op = "set_volume"
    /\ Len(sources) = 2
    /\ sources[1].name # sources[2].name
    /\ sources[2].name = m_call.args[1]
    /\ sources[2].volume = m_call.args[2]
    /\ sources[1].volume # sources[2].volume

\* C23: no two sources of the mixer's source list have the same name.
C23_SourceNamesUnique ==
    \A i, j \in DOMAIN sources :
        sources[i].name = sources[j].name => i = j

\* C24: when read_audio fails inside add_source (missing, unreadable or
\* corrupt file), the call raises and the source list, the cursor and the
\* playing flag are as they were.
C24_FailedDecodeLeavesMixer ==
    [][(/\ m_call'.op = "add_source"
        /\ m_call'.args[4] = Nothing
        /\ ~m_call'.args[2].readable)
       => /\ m_call'.raised
          /\ sources' = sources
          /\ position' = position
          /\ playing' = playing]_vars

\* add_source has failed on an unreadable file while a loaded source was
\* playing past its start.
C24_Witness ==
    /\ m_call.op = "add_source"
    /\ m_call.args[4] = Nothing
    /\ ~m_call.args[2].readable
    /\ m_call.raised
    /\ Len(sources) = 1
    /\ playing
    /\ position > 0

\* A source whose samples are a whole decoded file in stereo: as many frames
\* as the file, two samples a frame, a mono file's sample on both sides.
FullyConstructed(source) ==
    \E file \in AudioFiles :
        /\ file.readable
        /\ Len(source.data) = Len(file.frames)
        /\ \A j \in DOMAIN source.data :
               /\ Len(source.data[j]) = 2
               /\ source.data[j][1] = file.frames[j][1]
               /\ source.data[j][2] = file.frames[j][file.channels]

\* C25: in every interleaving of add_source on the control thread with read
\* on the real-time thread, each source of the list read() iterates over is
\* fully decoded and converted to stereo: the array add_source is still
\* working on is not in the list.
C25_ReadSeesWholeSources ==
    \A i \in DOMAIN sources : FullyConstructed(sources[i])

\* read() is inside its loop, one source consumed, while add_source holds a
\* decoded mono array it has not yet made stereo.
C25_Witness ==
    /\ rd_pc = "loop"
    /\ rd_k = 1
    /\ a_pc = "decoded"
    /\ a_data.channels = 1

\* C26: the frame offset passed to start_recording, back_to_start and
\* song_end is what _parse_frame reads back from the details string the
\* operation logs (song_end's carrying the had_restart key as well); the
\* details of the other events, which have no frame= key (session_start's
\* has an instrument key), parse to 0.
C26_FrameRoundTrip ==
    [][/\ \A f \in Frames :
              /\ (state = "WAITING" /\ start_recording(f))
                     => parse_frame(events'[Len(events')].details) = f
              /\ (state = "PLAYING" /\ back_to_start(f))
                     => parse_frame(events'[Len(events')].details) = f
              /\ (state = "PLAYING" /\ song_end(f))
                     => parse_frame(events'[Len(events')].details) = f
       /\ (/\ Len(events') = Len(events) + 1
           /\ events'[Len(events')].event_type
                  \in {"session_start", "next_track", "session_end"})
              => parse_frame(events'[Len(events')].details) = 0]_vars

\* A take logged from frame 400 to frame 1200 has been replayed.
C26_Witness ==
    /\ log = events
    /\ log # <<>>
    /\ ev_i = Len(log)
    /\ Len(completed) = 1
    /\ completed[1].start_frame = 400
    /\ completed[1].end_frame = 1200

\* C27: for a take [s, e) and a recording of T frames, one iteration of the
\* loop writes one file holding exactly the frames [max(0, s), min(e, T))
\* when min(e, T) > max(0, s), and otherwise changes neither the directory,
\* the saved paths, the setlist nor the files written and goes on with the
\* loop; every segment written is non-empty and within the recording.
C27_SegmentsClamped ==
    [][(t_pc = "loop" /\ t_i' = t_i + 1) =>
        LET take == completed[t_i + 1]
            T == Len(raw_data)
            lo == IF take.start_frame > 0 THEN take.start_frame ELSE 0
            hi == IF take.end_frame < T THEN take.end_frame ELSE T
        IN /\ IF hi > lo
              THEN /\ Len(written') = Len(written) + 1
                   /\ LET w == written'[Len(written')]
                      IN /\ w.start_frame = lo
                         /\ w.end_frame = hi
                         /\ w.samples = [i \in 1..(hi - lo) |->
                                            raw_data[lo + i] * (32768 \div One)]
                         /\ take_dir'[w.filename] = w.samples
                         /\ saved_paths' = Append(saved_paths, w.filename)
              ELSE /\ UNCHANGED <<take_dir, saved_paths, preferred_takes,
                                  written>>
                   /\ t_pc' = "loop"
           /\ \A i \in DOMAIN written' :
                  /\ 0 <= written'[i].start_frame
                  /\ written'[i].start_frame < written'[i].end_frame
                  /\ written'[i].end_frame <= T
                  /\ Len(written'[i].samples) > 0]_vars

\* Of two takes, one was cut at the end of the recording and written, the
\* other was empty after clamping and skipped.
C27_Witness ==
    /\ t_pc = "returned"
    /\ t_run = 1
    /\ Len(completed) = 2
    /\ Len(written) = 1
    /\ written[1].end_frame = Len(raw_data)
    /\ \E c \in 1..2 : completed[c].end_frame > Len(raw_data)

\* The take numbers a file name may carry.
TakeNumbers == 1..9

\* C28: a take saved for a (track, instrument) pair gets the number 1 + the
\* largest take number among the files of that pair already in the directory
\* (1 when there is none), and the file it is written to did not exist.
C28_NextTakeNumber ==
    [][(t_pc = "loop" /\ Len(written') = Len(written) + 1) =>
        LET take == completed[t_i + 1]
            w == written'[Len(written')]
            own == {n \in TakeNumbers :
                       take_filename(take.track_name, Instrument, n)
                           \in DOMAIN take_dir}
        IN /\ \A n \in own : n < w.take_number
           /\ w.take_number = 1 \/ (w.take_number - 1) \in own
           /\ w.filename \notin DOMAIN take_dir]_vars

C30_SessionAndSplicerAgree ==
    [][(ev_i' = ev_i + 1 /\ log[ev_i + 1].event_type = "song_end") =>
        /\ (Len(completed') = Len(completed) + 1)
               <=> (EmbeddedHadRestart(log[ev_i + 1].details) = S_False)
        /\ (/\ Len(completed') = Len(completed) + 1
            /\ \A k \in (ev_i + 2)..Len(log) :
                   log[k].event_type \notin {"record_start", "back_to_start"})
               => completed'[Len(completed')].start_frame
                      = recording_frame_start]_vars

\* A restarted take and then a clean take from frame 400 were logged and
\* replayed: the replay emitted the clean one alone.
C30_Witness ==
    /\ log = events
    /\ log # <<>>
    /\ ev_i = Len(log)
    /\ Len(completed) = 1
    /\ completed[1].start_frame = 400
    /\ recording_frame_start = 400
    /\ \E j \in DOMAIN log :
           /\ log[j].event_type = "song_end"
           /\ EmbeddedHadRestart(log[j].details) = S_True

\* The positions of the record_start events of a log.
RecordStarts(evs) ==
    {j \in DOMAIN evs : evs[j].event_type = "record_start"}

\* No two record_start events of the Session's log, and no two takes the
\* replay derived, carry the same track index; and neither are more than
\* the setlist has tracks.
OneTakePerTrack ==
    /\ \A j, k \in RecordStarts(events) :
           events[j].track_index = events[k].track_index => j = k
    /\ Cardinality(RecordStarts(events)) <= Len(tracks)
    /\ \A j, k \in DOMAIN completed :
           completed[j].track_index = completed[k].track_index => j = k
    /\ Len(completed) <= Len(tracks)

SessionEnds(evs) ==
    {j \in DOMAIN evs : evs[j].event_type = "session_end"}

\* C32: once a Session is in ENDED its event log is frozen: the log holds
\* exactly one session_end event, that event is the last one, and no later
\* Session operation (a repeated end_session included) changes the log.
C32_LogFrozenOnceEnded ==
    [][/\ state' = "ENDED" => SessionEnds(events') = {Len(events')}
       /\ state = "ENDED" => events' = events]_vars

\* The positions of the song_end events of a log.
SongEnds(evs) ==
    {j \in DOMAIN evs : evs[j].event_type = "song_end"}

\* C33: when the handler's thread and the user's thread call
\* Session.song_end concurrently for the same take, one song_end event is
\* appended and the state moves to BETWEEN_TRACKS once: the log never holds
\* two song_end events with no record_start between them, and no thread
\* sets BETWEEN_TRACKS in a Session that is in BETWEEN_TRACKS already.
C33_OneSongEndPerTake ==
    [][/\ \A j, k \in SongEnds(events') :
              j < k => \E m \in (j + 1)..(k - 1) :
                           events'[m].event_type = "record_start"
       /\ \A t \in ScreenThreads :
              (se_pc[t] = "set" /\ se_pc'[t] # "set")
                  => state # "BETWEEN_TRACKS"]_vars

\* No thread of the screen is inside the callback or a song end, and no
\* handler thread is waiting to run.
ScreenQuiet ==
    /\ cb_pc = "idle"
    /\ threads = 0
    /\ \A t \in ScreenThreads : se_pc[t] = "idle"

\* C34: a stale song-end notification never ends a restarted attempt: the
\* handler's thread logs song_end only if the mixer has not been set playing
\* again since the callback dispatched the notification, and once every
\* thread is done the mixer is not paused while the Session is PLAYING.
C34_StaleSongEndIgnored ==
    [][/\ (se_pc["auto"] = "log" /\ se_pc'["auto"] = "set") => notified
       /\ (ScreenQuiet' /\ state' = "PLAYING") => playing']_vars

\* C35: a reset() or clear() the control thread issues while the real-time
\* thread is inside read(frames) is neither torn nor lost: every source of
\* one read() is sampled from the same cursor, and when the read stores the
\* cursor with the reset or clear as the Mixer's latest operation, the
\* cursor it leaves is 0 or frames.
C35_ResetDuringRead ==
    [][/\ (rd_pc = "loop" /\ rd_k' = rd_k + 1)
              => Cardinality(rd_starts') <= 1
       /\ (rd_pc = "advance" /\ rd_pc' = "idle"
               /\ m_call.op \in {"reset", "clear"})
              => position' \in {0, rd_frames}]_vars

\* stop_recording is over and no thread is inside the Recorder.
RecordingOver ==
    /\ recorder = Nothing
    /\ w_pc = "idle"
    /\ d_pc \in {"done", "crashed"}

\* C36: with stop_recording() on the control thread while the callback
\* runs, the callback never calls write on a reference that has become
\* None since it tested it, and every block the callback pushed into the
\* recorder is in the recorder's file once stop_recording is over.
C36_StopRecordingLosesNothing ==
    /\ ~(e_call.op = "_callback" /\ e_call.raised)
    /\ RecordingOver =>
           \A k \in 1..Len(pushed) :
               \E i \in 1..Len(f_data) : f_data[i] = pushed[k]

\* C37: Recorder.frames_written never decreases and never exceeds the
\* total number of frames pushed via write(). (The claim derives from this
\* that the offsets the orchestrator reads from frames_written for
\* successive Session events are non-decreasing, and that every
\* CompletedTake has start_frame <= end_frame.)
C37_FramesWrittenMonotone ==
    [][/\ frames_written' >= frames_written
       /\ frames_written' <= TotalFrames(pushed')]_vars

\* C38: blocks reach the file in the order they were pushed: of two blocks
\* in the file, the one pushed first comes first, in every interleaving of
\* the real-time thread, the drain thread and stop()'s flush.
C38_FileKeepsPushOrder ==
    \A i, j \in 1..Len(f_data) : i < j => f_data[i].id < f_data[j].id

\* C39: under fair scheduling, every block pushed while the recorder runs
\* is eventually in the file; and once stop() has been called on a started
\* recorder the drain thread's loop eventually ends and every stop() that
\* was called eventually returns.
C39_EventuallyWrittenAndStopped ==
    /\ \A k \in 1..MaxBlocks :
           (Len(pushed) >= k) ~> (\E i \in 1..Len(f_data) : f_data[i].id = k)
    /\ (r_thread # None /\ ~r_running) ~> (d_pc \in {"done", "crashed"})
    /\ \A n \in 1..MaxStops : (stop_calls >= n) ~> (stops >= n)

\* C40: the AudioEngine holds at most one open stream: start() while
\* running changes nothing, a start() that opens a stream finds the engine
\* holding none, and when stop() has returned the engine is not running, has
\* no stream and has no recorder.
C40_AtMostOneStream ==
    [][/\ (e_call'.op = "start" /\ e_running)
              => UNCHANGED <<e_stream, e_running, recorder, recorders>>
       /\ (e_call'.op = "start" /\ ~e_call'.raised /\ ~e_running)
              => e_stream = None /\ e_stream' = "stream" /\ e_running'
       /\ (e_call'.op = "stop" /\ ~e_call'.raised)
              => ~e_running' /\ e_stream' = None /\ recorder' = Nothing]_vars

====
